---- MODULE Spec2Model ----
(***************************************************************************)
(* Model of the CSV-driven image overlay (app.js): the row-to-section      *)
(* builder (rowsToSections) and the per-section popup bubble controller    *)
(* (createSectionEl).  Strings are sequences of one-character strings.     *)
(***************************************************************************)
EXTENDS Integers, Sequences, FiniteSets, TLC

VARIABLES
    \* ---- rowsToSections (the for loop over the rows) ----
    rows,          \* the argument: a sequence of rows, a row a sequence of cells
    ri,            \* number of rows the loop has consumed
    sections,      \* const sections = []
    current,       \* let current = null (0), else the index of the current section in sections
    lastRow,       \* history: which branch of the loop body handled the last row
    \* ---- createSectionEl (one closure per section) ----
    img,           \* per section: "loading", "loaded" (load fired) or "error" (error fired)
    svg,           \* per section: the markers appended to the overlay svg
    warn,          \* per section: the number of warning elements appended to the section
    hidden,        \* per section: popup.classList.contains("hidden")
    pinned,        \* per section: let pinned
    hideTimer,     \* per section: let hideTimer (0 is null, else a timer id)
    timers,        \* the browser's pending timeouts: a set of [id, sec, mark]
    content,       \* per section: contentEl.innerHTML
    lastPopupPos,  \* per section: let lastPopupPos (<<>> is null, else <<x, y>>)
    prevPopupPos,  \* per section: the last non-null lastPopupPos of the listeners of earlier loads
    popupPos,      \* per section: popup.style.left / top (<<>> before any placement)
    stage,         \* the stage's rendered box [w, h] (changed by a window resize)
    pRect,         \* the popup's rendered box [w, h], as popup.getBoundingClientRect() measures it
    pointerAt,     \* where the pointer rests: <<"out">>, <<"marker", s, m>> or <<"popup", s>>
    penAt,         \* where a second pointer (touch, pen) rests: <<"out">> or <<"marker", s, m>>
    \* ---- main: parseCsv (the for loop over the characters), then the render ----
    text,          \* the fetched CSV text
    ci,            \* let i: the number of characters the loop has consumed
    csvRows,       \* const rows = [] of parseCsv, and its result once parsed
    row,           \* let row = []
    field,         \* let field = ""
    inQuotes,      \* let inQuotes = false
    pc,            \* main's position: "scan", "parsed", "rendered" ("build": rowsToSections alone)
    app,           \* what main put into #app: [error, sectionEls]
    \* ---- the page and the script's load (src/app.js: top level, main's fetch) ----
    globals,       \* what the page defines for the names u and csv of the top-level statement
    query,         \* the csv parameter of window.location.href (Null when absent)
    csvUrl,        \* const csvUrl of main (Undefined before main)
    response,      \* what fetch(csvUrl) gives: [kind, text]
    \* ---- show(): contentEl.innerHTML = mdToSafeHtml(it.linkOrText) ----
    mdInput,       \* the popup text, as the parts [pre, label, target, post]
    mdHtml,        \* the markup written to contentEl.innerHTML (<<"unset">> before show)
    \* ---- history ----
    lastEv,        \* the last event handled: [op, sec, mk, pre]
    clicks,        \* consecutive clicks on one marker that started from Hidden (0, 1, 2)
    sincePin       \* per section: what happened since the popup was last pinned

buildVars == <<rows, ri, sections, current, lastRow>>
domVars   == <<svg, warn>>
popupVars == <<img, svg, warn, hidden, pinned, hideTimer, timers, content, lastPopupPos,
               prevPopupPos,
               popupPos, stage, pRect, pointerAt, penAt>>
histVars  == <<lastEv, clicks, sincePin>>
csvVars   == <<text, ci, csvRows, row, field, inQuotes, pc, app>>
mdVars    == <<mdInput, mdHtml>>
loadVars  == <<globals, query, csvUrl, response>>
vars      == <<text, ci, csvRows, row, field, inQuotes, pc, app, mdInput, mdHtml,
               globals, query, csvUrl, response,
               rows, ri, sections, current, lastRow,
               img, svg, warn, hidden, pinned, hideTimer, timers, content, lastPopupPos,
               prevPopupPos, popupPos, stage, pRect, pointerAt, penAt, lastEv, clicks, sincePin>>

(***************************************************************************)
(* Strings                                                                 *)
(***************************************************************************)
Digits == {"0", "1", "2", "3", "4", "5", "6", "7", "8", "9"}

\* The white space String.prototype.trim removes (the part of it the inputs use).
WhiteSpace == {" ", "\t", "\n", "\r"}

\* JavaScript's undefined / null for an absent cell (no string of characters).
Undefined == <<"undefined">>

\* A JavaScript number: NaN, or the finite number n as Num(n), read by Val.
NaN == <<>>
Num(n) == <<n>>
Val(v) == v[1]

DigitVal(c) ==
    CASE c = "0" -> 0 [] c = "1" -> 1 [] c = "2" -> 2 [] c = "3" -> 3 [] c = "4" -> 4
      [] c = "5" -> 5 [] c = "6" -> 6 [] c = "7" -> 7 [] c = "8" -> 8 [] c = "9" -> 9

RECURSIVE TrimStart(_)
TrimStart(s) ==
    IF s # <<>> /\ Head(s) \in WhiteSpace THEN TrimStart(Tail(s)) ELSE s

RECURSIVE TrimEnd(_)
TrimEnd(s) ==
    IF s # <<>> /\ s[Len(s)] \in WhiteSpace THEN TrimEnd(SubSeq(s, 1, Len(s) - 1)) ELSE s

\* String.prototype.trim
Trim(s) == TrimEnd(TrimStart(s))

\* r[i] ?? dflt  (JavaScript indexes from 0: r[0] is Cell(r, 1))
Cell(r, i) == IF i <= Len(r) THEN r[i] ELSE Undefined

CellOr(r, i, dflt) == IF Cell(r, i) = Undefined THEN dflt ELSE Cell(r, i)

\* The longest prefix of s made of digits.
RECURSIVE DigitPrefix(_)
DigitPrefix(s) ==
    IF s # <<>> /\ Head(s) \in Digits THEN <<Head(s)>> \o DigitPrefix(Tail(s)) ELSE <<>>

\* The value of a digit string, read left to right in base 10.
RECURSIVE DigitsValue(_, _)
DigitsValue(s, acc) ==
    IF s = <<>> THEN acc ELSE DigitsValue(Tail(s), 10 * acc + DigitVal(Head(s)))

\* s.startsWith(p)
StartsWith(s, p) == Len(s) >= Len(p) /\ SubSeq(s, 1, Len(p)) = p

UpperCase == <<"A", "B", "C", "D", "E", "F", "G", "H", "I", "J", "K", "L", "M",
               "N", "O", "P", "Q", "R", "S", "T", "U", "V", "W", "X", "Y", "Z">>

LowerCase == <<"a", "b", "c", "d", "e", "f", "g", "h", "i", "j", "k", "l", "m",
               "n", "o", "p", "q", "r", "s", "t", "u", "v", "w", "x", "y", "z">>

\* The case folding of the regular expression flag i.
ToLower(c) ==
    IF \E k \in 1..26 : UpperCase[k] = c
    THEN LowerCase[CHOOSE k \in 1..26 : UpperCase[k] = c]
    ELSE c

LowerStr(s) == [k \in 1..Len(s) |-> ToLower(s[k])]

\* The first index k >= from with s[k] = c, or 0.
RECURSIVE IndexOf(_, _, _)
IndexOf(s, c, from) ==
    IF from > Len(s) THEN 0
    ELSE IF s[from] = c THEN from
    ELSE IndexOf(s, c, from + 1)

(***************************************************************************)
(* Cell coercion                                                           *)
(***************************************************************************)
\* Variant: /^[1-9][0-9]*$/, which rejects a leading zero.
isIntegerCell_NoLeadingZero(value) ==
    LET t == Trim(value)
    IN  t # <<>> /\ t[1] \in Digits \ {"0"} /\ \A k \in 1..Len(t) : t[k] \in Digits

\* /^[0-9]+$/.test(value.trim())
isIntegerCell(value) ==
    LET t == Trim(value)
    IN  t # <<>> /\ \A k \in 1..Len(t) : t[k] \in Digits

\* parseInt(a, 10) of a digits-only string
parseInt(a) == DigitsValue(DigitPrefix(a), 0)

\* parseFloat(s) for s without a decimal point, an exponent or "Infinity":
\* an optional sign and the longest run of digits; NaN when there is no digit.
parseFloat(s) ==
    LET t    == TrimStart(s)
        neg  == t # <<>> /\ Head(t) = "-"
        body == IF t # <<>> /\ Head(t) \in {"-", "+"} THEN Tail(t) ELSE t
        ds   == DigitPrefix(body)
    IN  IF ds = <<>> THEN NaN
        ELSE IF neg THEN Num(0 - DigitsValue(ds, 0)) ELSE Num(DigitsValue(ds, 0))

\* Number.isFinite(v)
isFinite(v) == v # NaN

\* Variant: an unparsable or empty cell gives 0 instead of the fallback.
parseNumberCell_ZeroFallback(cell, fallback) ==
    IF cell = Undefined THEN Num(0)
    ELSE IF isFinite(parseFloat(Trim(cell))) THEN parseFloat(Trim(cell)) ELSE Num(0)

parseNumberCell(cell, fallback) ==
    IF cell = Undefined THEN fallback
    ELSE LET s == Trim(cell)
         IN  IF s = <<>> THEN fallback
             ELSE IF isFinite(parseFloat(s)) THEN parseFloat(s) ELSE fallback

\* s.match(/^(-?\d+(?:\.\d+)?)\s*%?$/), for s without a decimal point
parsePercentCell(cell, fallback) ==
    IF cell = Undefined THEN fallback
    ELSE LET s    == Trim(cell)
             body == IF s # <<>> /\ Head(s) = "-" THEN Tail(s) ELSE s
             ds   == DigitPrefix(body)
             rest == TrimStart(SubSeq(body, Len(ds) + 1, Len(body)))
         IN  IF s = <<>> THEN fallback
             ELSE IF ds # <<>> /\ rest \in {<<>>, <<"%">>}
                  THEN parseFloat(SubSeq(s, 1, Len(s) - Len(body) + Len(ds)))
                  ELSE fallback

SchemeHttp   == <<"h", "t", "t", "p", ":", "/", "/">>
SchemeHttps  == <<"h", "t", "t", "p", "s", ":", "/", "/">>
SchemeMailto == <<"m", "a", "i", "l", "t", "o", ":">>

\* Variant: the regular expression without the flag i.
isNavigableUrl_CaseSensitive(s) ==
    LET t == Trim(s)
    IN  /\ s # <<>>
        /\ \/ StartsWith(t, SchemeHttp)
           \/ StartsWith(t, SchemeHttps)
           \/ StartsWith(t, SchemeMailto)

\* /^(https?:\/\/|mailto:)/i.test(String(s).trim())
isNavigableUrl(s) ==
    LET t == LowerStr(Trim(s))
    IN  /\ s # <<>>
        /\ \/ StartsWith(t, SchemeHttp)
           \/ StartsWith(t, SchemeHttps)
           \/ StartsWith(t, SchemeMailto)

\* cell.replace(/^"(.*)"$/, "$1"): the dot matches no line terminator
StripQuotes(s) ==
    IF /\ Len(s) >= 2
       /\ s[1] = "\""
       /\ s[Len(s)] = "\""
       /\ \A k \in 2..(Len(s) - 1) : s[k] \notin {"\n", "\r"}
    THEN SubSeq(s, 2, Len(s) - 1)
    ELSE s

(***************************************************************************)
(* Popup markup: escapeHtml and mdToSafeHtml                               *)
(***************************************************************************)
\* str.replaceAll(c, rep) for a one-character pattern c
RECURSIVE ReplaceAll(_, _, _)
ReplaceAll(s, c, rep) ==
    IF s = <<>> THEN <<>>
    ELSE (IF Head(s) = c THEN rep ELSE <<Head(s)>>) \o ReplaceAll(Tail(s), c, rep)

EntAmp ==
    <<"&", "a", "m", "p", ";">>

EntLt ==
    <<"&", "l", "t", ";">>

EntGt ==
    <<"&", "g", "t", ";">>

EntQuot ==
    <<"&", "q", "u", "o", "t", ";">>

EntApos ==
    <<"&", "#", "0", "3", "9", ";">>

\* Variant: without .replaceAll("<", "&lt;").
escapeHtml_KeepsLt(str) ==
    ReplaceAll(ReplaceAll(ReplaceAll(ReplaceAll(str,
        "&", EntAmp), ">", EntGt), "\"", EntQuot), "'", EntApos)

escapeHtml(str) ==
    ReplaceAll(ReplaceAll(ReplaceAll(ReplaceAll(ReplaceAll(str,
        "&", EntAmp), "<", EntLt), ">", EntGt), "\"", EntQuot), "'", EntApos)

AnchorOpen ==
    <<"<", "a", " ", "h", "r", "e", "f", "=", "\"">>

AnchorAttrs ==
    <<"\"", " ", "t", "a", "r", "g", "e", "t", "=", "\"", "_", "b", "l", "a", "n", "k",
      "\"", " ", "r", "e", "l", "=", "\"", "n", "o", "o", "p", "e", "n", "e", "r", " ",
      "n", "o", "r", "e", "f", "e", "r", "r", "e", "r", "\"", ">">>

AnchorClose ==
    <<"<", "/", "a", ">">>

LineBreak ==
    <<"<", "b", "r", ">">>

\* The match of /\[([^\]]+)\]\(([^)]+)\)/ that starts at index p of s, as
\* [label, url, end], or <<>> when the pattern does not match there.  The two
\* negated classes are greedy and cannot cross their closing character, so the
\* label ends at the first "]" after p and the url at the first ")" after "(".
LinkMatchAt(s, p) ==
    IF p > Len(s) \/ s[p] # "[" THEN <<>>
    ELSE LET q == IndexOf(s, "]", p + 1)
         IN  IF q = 0 \/ q = p + 1 \/ q + 1 > Len(s) \/ s[q + 1] # "(" THEN <<>>
             ELSE LET t == IndexOf(s, ")", q + 2)
                  IN  IF t = 0 \/ t = q + 2 THEN <<>>
                      ELSE [label |-> SubSeq(s, p + 1, q - 1),
                            url   |-> SubSeq(s, q + 2, t - 1),
                            end   |-> t]

\* The replacement callback of mdToSafeHtml: (_, label, url) => ...
LinkReplacement(label, url) ==
    LET href == Trim(url)
    IN  IF ~isNavigableUrl(href)
        THEN escapeHtml(label) \o <<" ", "(">> \o escapeHtml(href) \o <<")">>
        ELSE AnchorOpen \o escapeHtml(href) \o AnchorAttrs \o label \o AnchorClose

\* escaped.replace(/\[([^\]]+)\]\(([^)]+)\)/g, callback), scanning from index p
RECURSIVE ReplaceLinks(_, _)
ReplaceLinks(s, p) ==
    IF p > Len(s) THEN <<>>
    ELSE LET m == LinkMatchAt(s, p)
         IN  IF m = <<>> THEN <<s[p]>> \o ReplaceLinks(s, p + 1)
             ELSE LinkReplacement(m.label, m.url) \o ReplaceLinks(s, m.end + 1)

mdToSafeHtml(input) ==
    ReplaceAll(ReplaceLinks(escapeHtml(input), 1), "\n", LineBreak)

(***************************************************************************)
(* rowsToSections                                                          *)
(***************************************************************************)
Green == <<"g", "r", "e", "e", "n">>

\* const a = (r[0] ?? "").trim()
FirstCell(r) == Trim(CellOr(r, 1, <<>>))

\* current = { id, imageUrl, title, subtitle, scalePercent, titleYOffsetPx, items: [] }
NewSection(r) ==
    [id             |-> parseInt(FirstCell(r)),
     imageUrl       |-> Trim(StripQuotes(CellOr(r, 2, <<>>))),
     title          |-> Trim(CellOr(r, 3, <<>>)),
     subtitle       |-> Trim(CellOr(r, 4, <<>>)),
     scalePercent   |-> Val(parsePercentCell(Cell(r, 5), Num(100))),
     titleYOffsetPx |-> Val(parseNumberCell(Cell(r, 6), Num(0))),
     items          |-> <<>>]

\* const x = parseNumberCell(r[2], NaN); const y = parseNumberCell(r[3], NaN)
ItemX(r) == parseNumberCell(Cell(r, 3), NaN)
ItemY(r) == parseNumberCell(Cell(r, 4), NaN)

\* { name, linkOrText, isUrl, x, y, color, radius }, built once x and y are finite
NewItem(r) ==
    LET rawLinkOrText == Trim(StripQuotes(CellOr(r, 2, <<>>)))
        trimmedColor  == Trim(CellOr(r, 5, Green))
    IN  [name       |-> FirstCell(r),
         linkOrText |-> rawLinkOrText,
         isUrl      |-> isNavigableUrl(rawLinkOrText),
         x          |-> Val(ItemX(r)),
         y          |-> Val(ItemY(r)),
         color      |-> IF trimmedColor = <<>> THEN Green ELSE trimmedColor,
         radius     |-> Val(parseNumberCell(Cell(r, 6), Num(15)))]

\* The branch of the loop body that handles row r when the current section is cur.
RowKind(r, cur) ==
    IF FirstCell(r) = <<>> THEN "skip"
    ELSE IF isIntegerCell(FirstCell(r)) THEN "section"
    ELSE IF cur = 0 THEN "orphan"
    ELSE IF ~isFinite(ItemX(r)) \/ ~isFinite(ItemY(r)) THEN "dropped"
    ELSE "item"

\* sections.push(current)
PushSection(secs, r) == Append(secs, NewSection(r))

\* Variant: current.items.unshift({...}), the new item goes first.
PushItem_Unshift(secs, cur, r) ==
    [secs EXCEPT ![cur].items = <<NewItem(r)>> \o @]

\* current.items.push({...})
PushItem(secs, cur, r) ==
    [secs EXCEPT ![cur].items = Append(@, NewItem(r))]

\* Variant: without "if (!current) continue", an item row before the first
\* section row opens a section of its own.
RowStep_OrphanOpensSection(st, r) ==
    LET kind == RowKind(r, st.current)
    IN  IF kind = "section" \/ kind = "orphan"
        THEN [sections |-> PushSection(st.sections, r),
              current  |-> Len(st.sections) + 1]
        ELSE IF kind = "item"
        THEN [sections |-> PushItem(st.sections, st.current, r),
              current  |-> st.current]
        ELSE st

\* One iteration of "for (const r of rows)" on the state [sections, current].
RowStep(st, r) ==
    LET kind == RowKind(r, st.current)
    IN  IF kind = "section"
        THEN [sections |-> PushSection(st.sections, r),
              current  |-> Len(st.sections) + 1]
        ELSE IF kind = "item"
        THEN [sections |-> PushItem(st.sections, st.current, r),
              current  |-> st.current]
        ELSE st

RECURSIVE RowsFold(_, _, _)
RowsFold(st, rs, k) ==
    IF k > Len(rs) THEN st ELSE RowsFold(RowStep(st, rs[k]), rs, k + 1)

rowsToSections(rs) ==
    RowsFold([sections |-> <<>>, current |-> 0], rs, 1).sections

(***************************************************************************)
(* parseCsv                                                                *)
(***************************************************************************)
\* The parser's locals before the loop; i counts the characters consumed.
CsvStart == [rows |-> <<>>, row |-> <<>>, field |-> <<>>, inQuotes |-> FALSE, i |-> 0]

\* const c = text[i]; const next = text[i + 1] (undefined past the end)
CharAt(t, k) == IF k >= 1 /\ k <= Len(t) THEN t[k] ELSE "undefined"

\* Variant: without the test of two quotes in a row, a quote always closes.
CsvBranch_NoEscapedQuote(t, st) ==
    LET c == CharAt(t, st.i + 1)
    IN  IF st.inQuotes
        THEN (IF c = "\"" THEN "closeQuote" ELSE "quotedChar")
        ELSE (IF c = "\"" THEN "openQuote"
              ELSE IF c = "," THEN "comma"
              ELSE IF c = "\n" THEN "lineFeed"
              ELSE IF c = "\r" THEN "carriageReturn"
              ELSE "char")

\* Variant: the separators are tested before inQuotes.
CsvBranch_SeparatorsFirst(t, st) ==
    LET c    == CharAt(t, st.i + 1)
        next == CharAt(t, st.i + 2)
    IN  IF c = "," THEN "comma"
        ELSE IF c = "\n" THEN "lineFeed"
        ELSE IF st.inQuotes
        THEN (IF c = "\"" /\ next = "\"" THEN "escapedQuote"
              ELSE IF c = "\"" THEN "closeQuote"
              ELSE "quotedChar")
        ELSE (IF c = "\"" THEN "openQuote"
              ELSE IF c = "\r" THEN "carriageReturn"
              ELSE "char")

\* Variant: without the branch that ignores "\r".
CsvBranch_KeepsCarriageReturn(t, st) ==
    LET c    == CharAt(t, st.i + 1)
        next == CharAt(t, st.i + 2)
    IN  IF st.inQuotes
        THEN (IF c = "\"" /\ next = "\"" THEN "escapedQuote"
              ELSE IF c = "\"" THEN "closeQuote"
              ELSE "quotedChar")
        ELSE (IF c = "\"" THEN "openQuote"
              ELSE IF c = "," THEN "comma"
              ELSE IF c = "\n" THEN "lineFeed"
              ELSE "char")

\* The branch of the loop body taken for the next character.
CsvBranch(t, st) ==
    LET c    == CharAt(t, st.i + 1)
        next == CharAt(t, st.i + 2)
    IN  IF st.inQuotes
        THEN (IF c = "\"" /\ next = "\"" THEN "escapedQuote"
              ELSE IF c = "\"" THEN "closeQuote"
              ELSE "quotedChar")
        ELSE (IF c = "\"" THEN "openQuote"
              ELSE IF c = "," THEN "comma"
              ELSE IF c = "\n" THEN "lineFeed"
              ELSE IF c = "\r" THEN "carriageReturn"
              ELSE "char")

\* One iteration of "for (let i = 0; i < text.length; i++)".
CsvStep(t, st) ==
    LET c  == CharAt(t, st.i + 1)
        br == CsvBranch(t, st)
    IN  CASE br = "escapedQuote" ->
               [st EXCEPT !.field = Append(@, "\""), !.i = @ + 2]
          [] br = "closeQuote" ->
               [st EXCEPT !.inQuotes = FALSE, !.i = @ + 1]
          [] br = "quotedChar" ->
               [st EXCEPT !.field = Append(@, c), !.i = @ + 1]
          [] br = "openQuote" ->
               [st EXCEPT !.inQuotes = TRUE, !.i = @ + 1]
          [] br = "comma" ->
               [st EXCEPT !.row = Append(@, st.field), !.field = <<>>, !.i = @ + 1]
          [] br = "lineFeed" ->
               [st EXCEPT !.rows = Append(@, Append(st.row, st.field)),
                          !.row = <<>>, !.field = <<>>, !.i = @ + 1]
          [] br = "carriageReturn" ->
               [st EXCEPT !.i = @ + 1]
          [] br = "char" ->
               [st EXCEPT !.field = Append(@, c), !.i = @ + 1]

\* Variant: every row is filled with empty cells up to the longest row.
TrimCells_Padded(rs) ==
    LET width == IF rs = <<>> THEN 0
                 ELSE CHOOSE n \in {Len(rs[k]) : k \in 1..Len(rs)} :
                        \A k \in 1..Len(rs) : Len(rs[k]) <= n
    IN  [k \in 1..Len(rs) |->
            [j \in 1..width |-> IF j <= Len(rs[k]) THEN Trim(rs[k][j]) ELSE <<>>]]

\* rows.map((r) => r.map((c) => (c ?? "").trim()))
TrimCells(rs) == [k \in 1..Len(rs) |-> [j \in 1..Len(rs[k]) |-> Trim(rs[k][j])]]

\* Variant: the last field is pushed without the test of field and row.
CsvFinish_AlwaysPush(st) == TrimCells(Append(st.rows, Append(st.row, st.field)))

\* After the loop: the last field, then the trimmed cells.
CsvFinish(st) ==
    IF Len(st.field) > 0 \/ Len(st.row) > 0
    THEN TrimCells(Append(st.rows, Append(st.row, st.field)))
    ELSE TrimCells(st.rows)

RECURSIVE CsvFold(_, _)
CsvFold(t, st) ==
    IF st.i >= Len(t) THEN st ELSE CsvFold(t, CsvStep(t, st))

parseCsv(t) == CsvFinish(CsvFold(t, CsvStart))

\* Variant: the sections are appended without the test of sections.length.
Render_NoEmptyState(secs) == [error |-> "", sectionEls |-> Len(secs)]

\* main, after rowsToSections: the empty state, or one element per section.
Render(secs) ==
    IF Len(secs) = 0
    THEN [error |-> "No sections found", sectionEls |-> 0]
    ELSE [error |-> "", sectionEls |-> Len(secs)]

(***************************************************************************)
(* The page the popup controller is checked on: the sections built from    *)
(* these rows.  Section 1 has two text markers at the same coordinates and *)
(* a navigable marker; section 2 has two text markers at different ones.   *)
(***************************************************************************)
DemoRows ==
    <<<<<<"1">>, <<"i">>, <<"T">>>>,
      <<<<"A">>, <<"h", "i">>, <<"1", "0">>, <<"1", "0">>>>,
      <<<<"B">>, <<"y", "o">>, <<"1", "0">>, <<"1", "0">>>>,
      <<<<"U">>, <<"h", "t", "t", "p", ":", "/", "/", "x">>, <<"5", "0">>, <<"5", "0">>>>,
      <<<<"2">>, <<"j">>>>,
      <<<<"D">>, <<"[", "d", "]", "(", "m", "a", "i", "l", "t", "o", ":", "e", ")">>, <<"2", "0">>, <<"2", "0">>>>,
      <<<<"E">>, <<"n", "o">>, <<"9", "0">>, <<"9", "0">>, <<"r", "e", "d">>, <<"5">>>>>>

\* The CSV text of the page: parseCsv(DemoText) = DemoRows.
DemoText ==
    <<"1", ",", "i", ",", "T", "\n",
      "A", ",", "h", "i", ",", "1", "0", ",", "1", "0", "\n",
      "B", ",", "y", "o", ",", "1", "0", ",", "1", "0", "\n",
      "U", ",", "h", "t", "t", "p", ":", "/", "/", "x", ",", "5", "0", ",", "5", "0", "\n",
      "2", ",", "j", "\r", "\n",
      "D", ",", "\"", "[", "d", "]", "(", "m", "a", "i", "l", "t", "o", ":", "e", ")", "\"", ",", "2", "0", ",", "2", "0", "\n",
      "E", ",", "n", "o", ",", "9", "0", ",", "9", "0", ",", "r", "e", "d", ",", "5", "\n">>

Sections == rowsToSections(DemoRows)

SecIds == 1..Len(Sections)

Markers(s) == 1..Len(Sections[s].items)

TextMarkers(s) == {m \in Markers(s) : ~Sections[s].items[m].isUrl}

NavMarkers(s) == {m \in Markers(s) : Sections[s].items[m].isUrl}

Item(s, m) == Sections[s].items[m]

\* The marker anchor createSectionEl builds for item it: its href and target
\* attributes and the events it listens to.
MarkerOf(it) ==
    IF it.isUrl
    THEN [href |-> it.linkOrText, target |-> "_blank", listeners |-> {}]
    ELSE [href |-> <<"#">>, target |-> "",
          listeners |-> {"pointerenter", "pointerleave", "click"}]

\* mdToSafeHtml(it.linkOrText || "") of every marker of the page
Rendered == [s \in SecIds |-> [m \in Markers(s) |-> mdToSafeHtml(Item(s, m).linkOrText)]]

\* img.naturalWidth || 1, img.naturalHeight || 1 of the demo images
Natural == [w |-> 100, h |-> 100]

\* stage.getBoundingClientRect() width and height, before and after a resize
StageSizes == {[w |-> 100, h |-> 100], [w |-> 200, h |-> 200]}

\* popup.getBoundingClientRect() width and height
PopupBox == [w |-> 60, h |-> 40]

\* The rows the builder is checked on are drawn from this pool.
RowPool ==
    {<<<<>>>>,
     <<<<" ">>, <<"x">>>>,
     <<<<"0">>, <<"i">>>>,
     <<<<" ", "7", " ">>, <<"j">>, <<"T">>, <<"S">>, <<"5", "0", "%">>, <<"-", "5">>>>,
     <<<<"A">>, <<"h", "i">>, <<"1", "0">>, <<"2", "0">>>>,
     <<<<"B">>, <<"h", "t", "t", "p", ":", "/", "/", "x">>, <<"5">>, <<"5">>, <<"r", "e", "d">>, <<"3">>>>,
     <<<<"C">>, <<"t">>, <<"x">>, <<"5">>>>,
     <<<<"F">>, <<"\"", "M", "a", "i", "l", "T", "o", ":", "e", "\"">>, <<"5", "x">>, <<" ", "-", "7">>>>,
     <<<<"G">>, <<"t">>, <<>>, <<"5">>>>,
     <<<<"1", "a">>, <<"h", "t", "t", "p", ":", "/", "x">>, <<"1">>, <<"2">>, <<" ">>, <<"-", "3">>>>}

\* The characters the texts the parser is checked on are made of.
CsvChars == {"a", "1", "\"", ",", "\n", "\r"}

\* Bound: the longest text the parser is checked on.
MaxText == 5

\* Bound: the longest text the termination of main is checked on.
MaxTextFair == 4

\* Bound: the longest row sequence the builder is checked on.
MaxRows == 3

\* Bound: the timer ids the browser hands out (ids are compared only for
\* equality, so an id no variable refers to any more is handed out again).
MaxTimers == 3

(***************************************************************************)
(* The popup controller's helpers (closures of createSectionEl)            *)
(***************************************************************************)
\* const pad = 8
pad == 8

\* const clamp = (v, min, max) => Math.max(min, Math.min(max, v))
Min2(a, b) == IF a < b THEN a ELSE b
Max2(a, b) == IF a > b THEN a ELSE b
clamp(v, min, max) == Max2(min, Min2(max, v))

\* Variant: the flipped position is not clamped.
positionPopupAt_NoClamp(pxX, pxY, rect) ==
    LET x        == (pxX * rect.w) \div Natural.w
        y        == (pxY * rect.h) \div Natural.h
        pRight   == x + pad + pRect.w
        pBottom  == y + pad + pRect.h
    IN  <<IF pRight > rect.w - pad THEN x - pRect.w - pad ELSE x + pad,
          IF pBottom > rect.h - pad THEN y - pRect.h - pad ELSE y + pad>>

\* positionPopupAt(pxX, pxY): the popup's left and top, stage-local.  The popup
\* is measured (pRect) at its first placement <<x + pad, y + pad>>.
positionPopupAt(pxX, pxY, rect) ==
    LET x        == (pxX * rect.w) \div Natural.w
        y        == (pxY * rect.h) \div Natural.h
        pRight   == x + pad + pRect.w
        pBottom  == y + pad + pRect.h
        newLeft  == IF pRight > rect.w - pad THEN x - pRect.w - pad ELSE x + pad
        newTop   == IF pBottom > rect.h - pad THEN y - pRect.h - pad ELSE y + pad
    IN  <<clamp(newLeft, pad, rect.w - pRect.w - pad),
          clamp(newTop, pad, rect.h - pRect.h - pad)>>

\* clearTimeout(id)
clearTimeout(ts, id) == {t \in ts : t.id # id}

\* Variant: forgets clearTimeout and only resets the variable.
clearHideTimer_NoClearTimeout(ts, ht) == [timers |-> ts, hideTimer |-> 0]

\* Variant: one timer shared by all sections, so clearing drops every timeout.
clearHideTimer_Shared(ts, ht) == [timers |-> {}, hideTimer |-> 0]

\* clearHideTimer(), on the pending timeouts ts and this section's hideTimer ht
clearHideTimer(ts, ht) ==
    IF ht # 0
    THEN [timers |-> clearTimeout(ts, ht), hideTimer |-> 0]
    ELSE [timers |-> ts, hideTimer |-> ht]

\* The ids setTimeout may return: those no pending timeout and no other
\* section's hideTimer holds.
FreshIds(ts, s) ==
    {i \in 1..MaxTimers :
        /\ \A t \in ts : t.id # i
        /\ \A q \in SecIds \ {s} : hideTimer[q] # i}

\* Variant: arms the timeout without clearHideTimer() first.
scheduleHidePopup_NoClear(ts, ht, s) ==
    LET id == CHOOSE i \in FreshIds(ts, s) : \A j \in FreshIds(ts, s) : i <= j
    IN  [timers    |-> ts \cup {[id |-> id, sec |-> s, mark |-> FALSE]},
         hideTimer |-> id]

\* scheduleHidePopup(): clearHideTimer(); hideTimer = setTimeout(..., delayMs)
scheduleHidePopup(ts, ht, s) ==
    LET c  == clearHideTimer(ts, ht)
        id == CHOOSE i \in FreshIds(c.timers, s) : \A j \in FreshIds(c.timers, s) : i <= j
    IN  [timers    |-> c.timers \cup {[id |-> id, sec |-> s, mark |-> FALSE]},
         hideTimer |-> id]

CanSchedule(s) == FreshIds(clearHideTimer(timers, hideTimer[s]).timers, s) # {}

\* Variant: the test of pinned is inverted, if (pinned) hidePopup().
hideTimerCallback_Inverted(isPinned, isHidden) == IF isPinned THEN TRUE ELSE isHidden

\* Variant: the callback hides without looking at pinned.
hideTimerCallback_IgnoresPin(isPinned, isHidden) == TRUE

\* The timeout's callback: if (!pinned) hidePopup(); gives the new "hidden".
hideTimerCallback(isPinned, isHidden) == IF ~isPinned THEN TRUE ELSE isHidden

\* Variant: compares the objects (lastPopupPos === it), which are never the same.
sameMarker_ByIdentity(pos, it) == FALSE

\* const sameMarker = lastPopupPos && lastPopupPos.x === it.x && lastPopupPos.y === it.y
sameMarker(pos, it) == pos # <<>> /\ pos[1] = it.x /\ pos[2] = it.y

\* Variant: without the check t.closest("a.marker").
stageClick_NoMarkerCheck(target, isHidden, isPinned) ==
    IF target = "popup" THEN [hidden |-> isHidden, pinned |-> isPinned]
    ELSE [hidden |-> TRUE, pinned |-> FALSE]

\* The stage's click handler, for a click whose target is inside the popup
\* ("popup"), inside a marker ("marker") or elsewhere in the stage ("outside").
stageClick(target, isHidden, isPinned) ==
    IF target = "popup" THEN [hidden |-> isHidden, pinned |-> isPinned]
    ELSE IF target = "marker" THEN [hidden |-> isHidden, pinned |-> isPinned]
    ELSE [hidden |-> TRUE, pinned |-> FALSE]

\* Variant: without the check popup.classList.contains("hidden").
maybeRepositionPopup_NoHiddenCheck(isHidden, pos, oldPopupPos, rect) ==
    IF pos = <<>> THEN [hidden |-> isHidden, popupPos |-> oldPopupPos]
    ELSE [hidden |-> FALSE, popupPos |-> positionPopupAt(pos[1], pos[2], rect)]

\* maybeRepositionPopup(), for the stage box rect: the new "hidden" and position
maybeRepositionPopup(isHidden, pos, oldPopupPos, rect) ==
    IF isHidden THEN [hidden |-> isHidden, popupPos |-> oldPopupPos]
    ELSE IF pos = <<>> THEN [hidden |-> isHidden, popupPos |-> oldPopupPos]
    ELSE [hidden |-> FALSE, popupPos |-> positionPopupAt(pos[1], pos[2], rect)]

(***************************************************************************)
(* History of the events, kept for stating the properties                  *)
(***************************************************************************)
\* The hide timers of section s that are pending.
PendingOf(s) == {t \in timers : t.sec = s}

\* The popup's state class of section s.
PopupClass(s) ==
    IF hidden[s]
    THEN (IF pinned[s] THEN "HiddenPinned" ELSE "Hidden")
    ELSE (IF pinned[s] THEN "Pinned" ELSE "Hover")

\* Pointer enter/leave events and hide-timer firings.
HoverOps == {"enter", "leave", "popupEnter", "popupLeave", "timer"}

NoEvent == [op |-> "init", sec |-> 0, mk |-> 0, pre |-> "-", same |-> FALSE, mark |-> FALSE]

\* Records event op of section s (0: the window) on marker m (0: none).  same:
\* the popup showed m's content before the event; mark: the timer that fired
\* was pending when a click pinned the hovered popup; for a leave of the second
\* pointer, a hide timer was pending before it.  Reads hidden' and pinned'.
Record(op, s, m, same, mark) ==
    /\ lastEv' = [op |-> op, sec |-> s, mk |-> m,
                  pre |-> IF s \in SecIds THEN PopupClass(s) ELSE "-",
                  same |-> same, mark |-> mark]
    /\ clicks' = IF op # "click" THEN 0
                 ELSE IF hidden[s] THEN 1
                 ELSE IF clicks = 1 /\ lastEv.op = "click" /\ lastEv.sec = s /\ lastEv.mk = m
                      THEN 2
                 ELSE 0
    /\ sincePin' = [q \in SecIds |->
                      IF ~hidden'[q] /\ pinned'[q] THEN "noenter"
                      ELSE IF s \in SecIds /\ q # s THEN sincePin[q]
                      ELSE IF op \in HoverOps /\ sincePin[q] # "none"
                           THEN (IF op = "enter" THEN "enter" ELSE sincePin[q])
                      ELSE "none"]

\* The popup shows marker m's content, placed at m.
Showing(s, m) ==
    /\ content[s] = Rendered[s][m]
    /\ lastPopupPos[s] = <<Item(s, m).x, Item(s, m).y>>

(***************************************************************************)
(* The events of a section (handlers registered by createSectionEl)        *)
(***************************************************************************)
\* The anchor the resize listeners of section s end with: the listeners run in
\* the order of their registration, each with the lastPopupPos of its own load,
\* and each placement replaces the one before.
ResizeAnchor(s) == IF lastPopupPos[s] # <<>> THEN lastPopupPos[s] ELSE prevPopupPos[s]

\* img "load": the viewBox is set and the markers are created.
ImgLoad(s) ==
    /\ img[s] = "loading"
    /\ img' = [img EXCEPT ![s] = "loaded"]
    /\ svg' = [svg EXCEPT ![s] = Markers(s)]
    /\ UNCHANGED warn
    /\ UNCHANGED <<hidden, pinned, hideTimer, timers, content, lastPopupPos,
                   popupPos, stage, pointerAt>>
    /\ UNCHANGED buildVars
    /\ UNCHANGED csvVars
    /\ UNCHANGED mdVars
    /\ UNCHANGED loadVars
    /\ UNCHANGED prevPopupPos
    /\ UNCHANGED pRect
    /\ UNCHANGED penAt
    /\ Record("load", s, 0, FALSE, FALSE)

\* Variant: an image error marks every section's image as failed.
ImgError_FailsAll(s) ==
    /\ img[s] = "loading"
    /\ img' = [q \in SecIds |-> "error"]
    /\ warn' = [warn EXCEPT ![s] = @ + 1]
    /\ UNCHANGED svg
    /\ UNCHANGED <<hidden, pinned, hideTimer, timers, content, lastPopupPos,
                   popupPos, stage, pointerAt>>
    /\ UNCHANGED buildVars
    /\ UNCHANGED csvVars
    /\ UNCHANGED mdVars
    /\ UNCHANGED loadVars
    /\ UNCHANGED prevPopupPos
    /\ UNCHANGED pRect
    /\ UNCHANGED penAt
    /\ Record("error", s, 0, FALSE, FALSE)

\* img "error": the inline warning is appended; no marker is ever created.
ImgError(s) ==
    /\ img[s] = "loading"
    /\ img' = [img EXCEPT ![s] = "error"]
    /\ warn' = [warn EXCEPT ![s] = @ + 1]
    /\ UNCHANGED svg
    /\ UNCHANGED <<hidden, pinned, hideTimer, timers, content, lastPopupPos,
                   popupPos, stage, pointerAt>>
    /\ UNCHANGED buildVars
    /\ UNCHANGED csvVars
    /\ UNCHANGED mdVars
    /\ UNCHANGED loadVars
    /\ UNCHANGED prevPopupPos
    /\ UNCHANGED pRect
    /\ UNCHANGED penAt
    /\ Record("error", s, 0, FALSE, FALSE)

\* img "load" fired again (the image was loaded anew): the markers are removed
\* and created again with handlers over a new lastPopupPos = null, and one more
\* resize listener is registered; the listener of the load before stays, with
\* its lastPopupPos.  popup, pinned and hideTimer belong to createSectionEl and
\* are not touched.  A pointer that rested on a removed marker rests on none.
ImgReload(s) ==
    /\ img[s] = "loaded"
    /\ svg' = [svg EXCEPT ![s] = Markers(s)]
    /\ prevPopupPos' = [prevPopupPos EXCEPT ![s] = ResizeAnchor(s)]
    /\ lastPopupPos' = [lastPopupPos EXCEPT ![s] = <<>>]
    /\ pointerAt' = IF pointerAt[1] = "marker" /\ pointerAt[2] = s THEN <<"out">> ELSE pointerAt
    /\ penAt' = IF penAt[1] = "marker" /\ penAt[2] = s THEN <<"out">> ELSE penAt
    /\ UNCHANGED <<img, warn, hidden, pinned, hideTimer, timers, content, popupPos,
                   stage, pRect>>
    /\ UNCHANGED buildVars
    /\ UNCHANGED csvVars
    /\ UNCHANGED mdVars
    /\ UNCHANGED loadVars
    /\ Record("reload", s, 0, FALSE, FALSE)

\* Variant: show() without clearHideTimer().
show_NoClearHideTimer(s, m) ==
    /\ UNCHANGED <<timers, hideTimer>>
    /\ content' = [content EXCEPT ![s] = Rendered[s][m]]
    /\ lastPopupPos' = [lastPopupPos EXCEPT ![s] = <<Item(s, m).x, Item(s, m).y>>]
    /\ popupPos' = [popupPos EXCEPT
                      ![s] = positionPopupAt(Item(s, m).x, Item(s, m).y, stage)]
    /\ hidden' = [hidden EXCEPT ![s] = FALSE]

\* show(): clearHideTimer(); contentEl.innerHTML = ...; lastPopupPos = ...;
\* positionPopupAt(it.x, it.y), which removes the class "hidden".
show(s, m) ==
    LET c == clearHideTimer(timers, hideTimer[s])
    IN  /\ timers' = c.timers
        /\ hideTimer' = [hideTimer EXCEPT ![s] = c.hideTimer]
        /\ content' = [content EXCEPT ![s] = Rendered[s][m]]
        /\ lastPopupPos' = [lastPopupPos EXCEPT ![s] = <<Item(s, m).x, Item(s, m).y>>]
        /\ popupPos' = [popupPos EXCEPT
                          ![s] = positionPopupAt(Item(s, m).x, Item(s, m).y, stage)]
        /\ hidden' = [hidden EXCEPT ![s] = FALSE]

\* a "pointerenter" on a text marker: pinned = false; show()
MarkerPointerEnter(s, m) ==
    /\ m \in svg[s]
    /\ m \in TextMarkers(s)
    /\ pointerAt = <<"out">>
    /\ pointerAt' = <<"marker", s, m>>
    /\ pinned' = [pinned EXCEPT ![s] = FALSE]
    /\ show(s, m)
    /\ UNCHANGED <<img, stage>>
    /\ UNCHANGED buildVars
    /\ UNCHANGED csvVars
    /\ UNCHANGED mdVars
    /\ UNCHANGED loadVars
    /\ UNCHANGED prevPopupPos
    /\ UNCHANGED pRect
    /\ UNCHANGED penAt
    /\ UNCHANGED domVars
    /\ Record("enter", s, m, Showing(s, m), FALSE)

\* a "pointerleave" on a text marker: scheduleHidePopup(220)
MarkerPointerLeave(s, m) ==
    /\ pointerAt = <<"marker", s, m>>
    /\ CanSchedule(s)
    /\ pointerAt' = <<"out">>
    /\ LET n == scheduleHidePopup(timers, hideTimer[s], s)
       IN  /\ timers' = n.timers
           /\ hideTimer' = [hideTimer EXCEPT ![s] = n.hideTimer]
    /\ UNCHANGED <<img, hidden, pinned, content, lastPopupPos, popupPos, stage>>
    /\ UNCHANGED buildVars
    /\ UNCHANGED csvVars
    /\ UNCHANGED mdVars
    /\ UNCHANGED loadVars
    /\ UNCHANGED prevPopupPos
    /\ UNCHANGED pRect
    /\ UNCHANGED penAt
    /\ UNCHANGED domVars
    /\ Record("leave", s, m, Showing(s, m), FALSE)

\* popup "mouseenter": clearHideTimer()
PopupMouseEnter(s) ==
    /\ ~hidden[s]
    /\ pointerAt = <<"out">>
    /\ pointerAt' = <<"popup", s>>
    /\ LET c == clearHideTimer(timers, hideTimer[s])
       IN  /\ timers' = c.timers
           /\ hideTimer' = [hideTimer EXCEPT ![s] = c.hideTimer]
    /\ UNCHANGED <<img, hidden, pinned, content, lastPopupPos, popupPos, stage>>
    /\ UNCHANGED buildVars
    /\ UNCHANGED csvVars
    /\ UNCHANGED mdVars
    /\ UNCHANGED loadVars
    /\ UNCHANGED prevPopupPos
    /\ UNCHANGED pRect
    /\ UNCHANGED penAt
    /\ UNCHANGED domVars
    /\ Record("popupEnter", s, 0, FALSE, FALSE)

\* Variant: the popup's "mouseleave" arms no timer while the popup is pinned.
PopupMouseLeave_SkipsWhenPinned(s) ==
    /\ pointerAt = <<"popup", s>>
    /\ CanSchedule(s)
    /\ pointerAt' = <<"out">>
    /\ LET n == IF pinned[s]
                THEN [timers |-> timers, hideTimer |-> hideTimer[s]]
                ELSE scheduleHidePopup(timers, hideTimer[s], s)
       IN  /\ timers' = n.timers
           /\ hideTimer' = [hideTimer EXCEPT ![s] = n.hideTimer]
    /\ UNCHANGED <<img, hidden, pinned, content, lastPopupPos, popupPos, stage>>
    /\ UNCHANGED buildVars
    /\ UNCHANGED csvVars
    /\ UNCHANGED mdVars
    /\ UNCHANGED loadVars
    /\ UNCHANGED prevPopupPos
    /\ UNCHANGED pRect
    /\ UNCHANGED penAt
    /\ UNCHANGED domVars
    /\ Record("popupLeave", s, 0, FALSE, FALSE)

\* popup "mouseleave": scheduleHidePopup(220)
PopupMouseLeave(s) ==
    /\ pointerAt = <<"popup", s>>
    /\ CanSchedule(s)
    /\ pointerAt' = <<"out">>
    /\ LET n == scheduleHidePopup(timers, hideTimer[s], s)
       IN  /\ timers' = n.timers
           /\ hideTimer' = [hideTimer EXCEPT ![s] = n.hideTimer]
    /\ UNCHANGED <<img, hidden, pinned, content, lastPopupPos, popupPos, stage>>
    /\ UNCHANGED buildVars
    /\ UNCHANGED csvVars
    /\ UNCHANGED mdVars
    /\ UNCHANGED loadVars
    /\ UNCHANGED prevPopupPos
    /\ UNCHANGED pRect
    /\ UNCHANGED penAt
    /\ UNCHANGED domVars
    /\ Record("popupLeave", s, 0, FALSE, FALSE)

\* The hide timer fires: if (!pinned) hidePopup().  hideTimer keeps the id.
TimerFire(s) ==
    \E t \in timers :
        /\ t.sec = s
        /\ timers' = timers \ {t}
        /\ hidden' = [hidden EXCEPT ![s] = hideTimerCallback(pinned[s], hidden[s])]
        /\ UNCHANGED <<img, pinned, hideTimer, content, lastPopupPos, popupPos,
                       stage, pointerAt>>
        /\ UNCHANGED buildVars
        /\ UNCHANGED csvVars
        /\ UNCHANGED mdVars
        /\ UNCHANGED loadVars
        /\ UNCHANGED prevPopupPos
        /\ UNCHANGED pRect
        /\ UNCHANGED penAt
        /\ UNCHANGED domVars
        /\ Record("timer", s, 0, FALSE, t.mark)

\* a "click" on a text marker (pointer, touch or keyboard activation)
MarkerClick(s, m) ==
    /\ m \in svg[s]
    /\ m \in TextMarkers(s)
    /\ IF hidden[s] \/ ~sameMarker(lastPopupPos[s], Item(s, m))
       THEN \* show and pin
            /\ pinned' = [pinned EXCEPT ![s] = TRUE]
            /\ show(s, m)
       ELSE \* same marker: toggle pin/hide
            /\ pinned' = [pinned EXCEPT ![s] = ~pinned[s]]
            /\ hidden' = [hidden EXCEPT ![s] = IF pinned[s] THEN TRUE ELSE hidden[s]]
            /\ timers' = IF pinned[s] THEN timers
                         ELSE {IF t.sec = s THEN [t EXCEPT !.mark = TRUE] ELSE t :
                                 t \in timers}
            /\ UNCHANGED <<hideTimer, content, lastPopupPos, popupPos>>
    /\ UNCHANGED <<img, stage, pointerAt>>
    /\ UNCHANGED buildVars
    /\ UNCHANGED csvVars
    /\ UNCHANGED mdVars
    /\ UNCHANGED loadVars
    /\ UNCHANGED prevPopupPos
    /\ UNCHANGED pRect
    /\ UNCHANGED penAt
    /\ UNCHANGED domVars
    /\ Record("click", s, m, Showing(s, m), FALSE)

\* Variant: the close button hides the popup without resetting pinned.
CloseClick_KeepsPin(s) ==
    /\ ~hidden[s]
    /\ hidden' = [hidden EXCEPT ![s] = TRUE]
    /\ UNCHANGED <<img, pinned, hideTimer, timers, content, lastPopupPos, popupPos,
                   stage, pointerAt>>
    /\ UNCHANGED buildVars
    /\ UNCHANGED csvVars
    /\ UNCHANGED mdVars
    /\ UNCHANGED loadVars
    /\ UNCHANGED prevPopupPos
    /\ UNCHANGED pRect
    /\ UNCHANGED penAt
    /\ UNCHANGED domVars
    /\ Record("close", s, 0, FALSE, FALSE)

\* a "click" on the close button: stopPropagation(); pinned = false; hidePopup()
CloseClick(s) ==
    /\ ~hidden[s]
    /\ pinned' = [pinned EXCEPT ![s] = FALSE]
    /\ hidden' = [hidden EXCEPT ![s] = TRUE]
    /\ UNCHANGED <<img, hideTimer, timers, content, lastPopupPos, popupPos,
                   stage, pointerAt>>
    /\ UNCHANGED buildVars
    /\ UNCHANGED csvVars
    /\ UNCHANGED mdVars
    /\ UNCHANGED loadVars
    /\ UNCHANGED prevPopupPos
    /\ UNCHANGED pRect
    /\ UNCHANGED penAt
    /\ UNCHANGED domVars
    /\ Record("close", s, 0, FALSE, FALSE)

\* A click that bubbles to the stage, with its target inside the popup.
PopupClick(s) ==
    /\ ~hidden[s]
    /\ LET r == stageClick("popup", hidden[s], pinned[s])
       IN  /\ hidden' = [hidden EXCEPT ![s] = r.hidden]
           /\ pinned' = [pinned EXCEPT ![s] = r.pinned]
    /\ UNCHANGED <<img, hideTimer, timers, content, lastPopupPos, popupPos,
                   stage, pointerAt>>
    /\ UNCHANGED buildVars
    /\ UNCHANGED csvVars
    /\ UNCHANGED mdVars
    /\ UNCHANGED loadVars
    /\ UNCHANGED prevPopupPos
    /\ UNCHANGED pRect
    /\ UNCHANGED penAt
    /\ UNCHANGED domVars
    /\ Record("popupClick", s, 0, FALSE, FALSE)

\* A click on a navigable marker: the link opens; the click bubbles to the stage.
NavClick(s, m) ==
    /\ m \in svg[s]
    /\ m \in NavMarkers(s)
    /\ LET r == stageClick("marker", hidden[s], pinned[s])
       IN  /\ hidden' = [hidden EXCEPT ![s] = r.hidden]
           /\ pinned' = [pinned EXCEPT ![s] = r.pinned]
    /\ UNCHANGED <<img, hideTimer, timers, content, lastPopupPos, popupPos,
                   stage, pointerAt>>
    /\ UNCHANGED buildVars
    /\ UNCHANGED csvVars
    /\ UNCHANGED mdVars
    /\ UNCHANGED loadVars
    /\ UNCHANGED prevPopupPos
    /\ UNCHANGED pRect
    /\ UNCHANGED penAt
    /\ UNCHANGED domVars
    /\ Record("navClick", s, m, FALSE, FALSE)

\* A click in the stage outside the popup and outside every marker.
StageClick(s) ==
    /\ LET r == stageClick("outside", hidden[s], pinned[s])
       IN  /\ hidden' = [hidden EXCEPT ![s] = r.hidden]
           /\ pinned' = [pinned EXCEPT ![s] = r.pinned]
    /\ UNCHANGED <<img, hideTimer, timers, content, lastPopupPos, popupPos,
                   stage, pointerAt>>
    /\ UNCHANGED buildVars
    /\ UNCHANGED csvVars
    /\ UNCHANGED mdVars
    /\ UNCHANGED loadVars
    /\ UNCHANGED prevPopupPos
    /\ UNCHANGED pRect
    /\ UNCHANGED penAt
    /\ UNCHANGED domVars
    /\ Record("stageClick", s, 0, FALSE, FALSE)

\* window "resize": the stage box changes; every loaded section's listeners,
\* maybeRepositionPopup, run.
Resize ==
    \E rect \in StageSizes \ {stage} :
        /\ stage' = rect
        /\ hidden' = [s \in SecIds |->
                        IF img[s] = "loaded"
                        THEN maybeRepositionPopup(hidden[s], ResizeAnchor(s),
                                                  popupPos[s], rect).hidden
                        ELSE hidden[s]]
        /\ popupPos' = [s \in SecIds |->
                          IF img[s] = "loaded"
                          THEN maybeRepositionPopup(hidden[s], ResizeAnchor(s),
                                                    popupPos[s], rect).popupPos
                          ELSE popupPos[s]]
        /\ UNCHANGED <<img, pinned, hideTimer, timers, content, lastPopupPos, pointerAt>>
        /\ UNCHANGED buildVars
        /\ UNCHANGED csvVars
        /\ UNCHANGED mdVars
        /\ UNCHANGED loadVars
        /\ UNCHANGED prevPopupPos
        /\ UNCHANGED pRect
        /\ UNCHANGED penAt
        /\ UNCHANGED domVars
        /\ Record("resize", 0, 0, FALSE, FALSE)

\* a "pointerenter" of a second pointer (touch, pen) on a text marker: pointer
\* events are dispatched per pointer, to the same listener.
PenPointerEnter(s, m) ==
    /\ m \in svg[s]
    /\ m \in TextMarkers(s)
    /\ penAt = <<"out">>
    /\ penAt' = <<"marker", s, m>>
    /\ pinned' = [pinned EXCEPT ![s] = FALSE]
    /\ show(s, m)
    /\ UNCHANGED <<img, stage, pointerAt>>
    /\ UNCHANGED buildVars
    /\ UNCHANGED csvVars
    /\ UNCHANGED mdVars
    /\ UNCHANGED loadVars
    /\ UNCHANGED prevPopupPos
    /\ UNCHANGED pRect
    /\ UNCHANGED domVars
    /\ Record("enter", s, m, Showing(s, m), FALSE)

\* a "pointerleave" of the second pointer on a text marker: scheduleHidePopup(220)
PenPointerLeave(s, m) ==
    /\ penAt = <<"marker", s, m>>
    /\ CanSchedule(s)
    /\ penAt' = <<"out">>
    /\ LET n == scheduleHidePopup(timers, hideTimer[s], s)
       IN  /\ timers' = n.timers
           /\ hideTimer' = [hideTimer EXCEPT ![s] = n.hideTimer]
    /\ UNCHANGED <<img, hidden, pinned, content, lastPopupPos, popupPos, stage, pointerAt>>
    /\ UNCHANGED buildVars
    /\ UNCHANGED csvVars
    /\ UNCHANGED mdVars
    /\ UNCHANGED loadVars
    /\ UNCHANGED prevPopupPos
    /\ UNCHANGED pRect
    /\ UNCHANGED domVars
    /\ Record("leave", s, m, Showing(s, m), PendingOf(s) # {})

(***************************************************************************)
(* Specification of the popup controller on the demo page                  *)
(***************************************************************************)
\* The closures' variables and the popups after createSectionEl.
PopupsInit ==
    /\ hidden = [s \in SecIds |-> TRUE]
    /\ pinned = [s \in SecIds |-> FALSE]
    /\ hideTimer = [s \in SecIds |-> 0]
    /\ timers = {}
    /\ content = [s \in SecIds |-> <<>>]
    /\ lastPopupPos = [s \in SecIds |-> <<>>]
    /\ prevPopupPos = [s \in SecIds |-> <<>>]
    /\ popupPos = [s \in SecIds |-> <<>>]
    /\ stage = [w |-> 100, h |-> 100]
    /\ pRect = PopupBox
    /\ pointerAt = <<"out">>
    /\ penAt = <<"out">>
    /\ lastEv = NoEvent
    /\ clicks = 0
    /\ sincePin = [s \in SecIds |-> "none"]

PopupInit ==
    /\ img = [s \in SecIds |-> "loading"]
    /\ svg = [s \in SecIds |-> {}]
    /\ warn = [s \in SecIds |-> 0]
    /\ PopupsInit

\* The script has loaded and main has fetched the text (part_002 has no
\* top-level statement but the call of main, and its getCsvUrlFromQuery
\* returns the parameter as it is).
Fetched ==
    /\ globals = [u |-> "undeclared", csv |-> Undefined]
    /\ query = <<"a">>
    /\ csvUrl = <<"a">>
    /\ response = [kind |-> "ok", text |-> text]

\* No popup text is under check.
MdUnused ==
    /\ mdInput = [pre |-> <<>>, label |-> <<>>, target |-> <<>>, post |-> <<>>]
    /\ mdHtml = <<"unset">>

\* main has run on the page's text.
CsvDone ==
    /\ text = DemoText
    /\ ci = Len(DemoText)
    /\ csvRows = parseCsv(DemoText)
    /\ row = <<>>
    /\ field = <<>>
    /\ inQuotes = FALSE
    /\ pc = "rendered"
    /\ app = Render(Sections)
    /\ MdUnused
    /\ Fetched

Init ==
    /\ CsvDone
    /\ rows = DemoRows
    /\ ri = Len(DemoRows)
    /\ sections = Sections
    /\ current = Len(Sections)
    /\ lastRow = "done"
    /\ PopupInit

Next ==
    \/ \E s \in SecIds : ImgLoad(s)
    \/ \E s \in SecIds : ImgError(s)
    \/ \E s \in SecIds : \E m \in Markers(s) : MarkerPointerEnter(s, m)
    \/ \E s \in SecIds : \E m \in Markers(s) : MarkerPointerLeave(s, m)
    \/ \E s \in SecIds : PopupMouseEnter(s)
    \/ \E s \in SecIds : PopupMouseLeave(s)
    \/ \E s \in SecIds : TimerFire(s)
    \/ \E s \in SecIds : \E m \in Markers(s) : MarkerClick(s, m)
    \/ \E s \in SecIds : CloseClick(s)
    \/ \E s \in SecIds : PopupClick(s)
    \/ \E s \in SecIds : \E m \in Markers(s) : NavClick(s, m)
    \/ \E s \in SecIds : StageClick(s)
    \/ Resize

Spec == Init /\ [][Next]_vars

\* The browser runs a due timeout: a pending hide timer eventually fires
\* unless it is cleared.
SpecFair == Spec /\ \A s \in SecIds : WF_vars(TimerFire(s))

\* The page used with two pointers (a mouse and a touch or pen pointer).
NextPointers ==
    \/ Next
    \/ \E s \in SecIds : \E m \in Markers(s) : PenPointerEnter(s, m)
    \/ \E s \in SecIds : \E m \in Markers(s) : PenPointerLeave(s, m)

\* The page once the image of section 2 has failed (the state after ImgError(2)).
InitPointers ==
    /\ CsvDone
    /\ rows = DemoRows
    /\ ri = Len(DemoRows)
    /\ sections = Sections
    /\ current = Len(Sections)
    /\ lastRow = "done"
    /\ img = [s \in SecIds |-> IF s = 2 THEN "error" ELSE "loading"]
    /\ svg = [s \in SecIds |-> {}]
    /\ warn = [s \in SecIds |-> IF s = 2 THEN 1 ELSE 0]
    /\ PopupsInit

SpecPointers == InitPointers /\ [][NextPointers]_vars

(***************************************************************************)
(* Specification of the page whose images may be loaded anew               *)
(***************************************************************************)
NextReload ==
    \/ Next
    \/ \E s \in SecIds : ImgReload(s)

SpecReload == InitPointers /\ [][NextReload]_vars

(***************************************************************************)
(* Specification of the placement: positionPopupAt on any marker position, *)
(* stage box and popup box                                                 *)
(***************************************************************************)
\* Stage boxes, from smaller than the popup to twice the image.
PlaceStages == {[w |-> 50, h |-> 50], [w |-> 100, h |-> 100], [w |-> 200, h |-> 100]}

\* Popup boxes, as the popup's text makes them.
PlaceBoxes == {[w |-> 20, h |-> 20], [w |-> 60, h |-> 40], [w |-> 40, h |-> 90]}

\* Marker coordinates in image pixels (x and y cells), also outside the image.
PlaceCoords == {0 - 10, 0, 10, 50, 90, 100, 120}

\* The page with the image of section 1 loaded, in a window and with a popup
\* text of any of these sizes.
InitPlace ==
    /\ CsvDone
    /\ rows = DemoRows
    /\ ri = Len(DemoRows)
    /\ sections = Sections
    /\ current = Len(Sections)
    /\ lastRow = "done"
    /\ img = [s \in SecIds |-> IF s = 1 THEN "loaded" ELSE "loading"]
    /\ svg = [s \in SecIds |-> IF s = 1 THEN Markers(s) ELSE {}]
    /\ warn = [s \in SecIds |-> 0]
    /\ hidden = [s \in SecIds |-> TRUE]
    /\ pinned = [s \in SecIds |-> FALSE]
    /\ hideTimer = [s \in SecIds |-> 0]
    /\ timers = {}
    /\ content = [s \in SecIds |-> <<>>]
    /\ lastPopupPos = [s \in SecIds |-> <<>>]
    /\ prevPopupPos = [s \in SecIds |-> <<>>]
    /\ popupPos = [s \in SecIds |-> <<>>]
    /\ stage \in PlaceStages
    /\ pRect \in PlaceBoxes
    /\ pointerAt = <<"out">>
    /\ penAt = <<"out">>
    /\ lastEv = NoEvent
    /\ clicks = 0
    /\ sincePin = [s \in SecIds |-> "none"]

\* show() of a text marker at <<x, y>>, as far as the placement goes:
\* lastPopupPos = { x, y }; positionPopupAt(x, y).
PositionPopup(s) ==
    \E x \in PlaceCoords : \E y \in PlaceCoords :
        /\ img[s] = "loaded"
        /\ lastPopupPos' = [lastPopupPos EXCEPT ![s] = <<x, y>>]
        /\ popupPos' = [popupPos EXCEPT ![s] = positionPopupAt(x, y, stage)]
        /\ hidden' = [hidden EXCEPT ![s] = FALSE]
        /\ UNCHANGED <<img, pinned, hideTimer, timers, content, stage, pRect,
                       pointerAt, penAt, prevPopupPos>>
        /\ UNCHANGED buildVars
        /\ UNCHANGED csvVars
        /\ UNCHANGED mdVars
        /\ UNCHANGED loadVars
        /\ UNCHANGED domVars
        /\ UNCHANGED histVars

NextPlace == \E s \in SecIds : PositionPopup(s)

SpecPlace == InitPlace /\ [][NextPlace]_vars

(***************************************************************************)
(* Specification of rowsToSections: the loop, one row per step             *)
(***************************************************************************)
\* The loop body's effect on the next row, recorded as the branch kind.
Advance(kind) ==
    /\ LET st == RowStep([sections |-> sections, current |-> current], rows[ri + 1])
       IN  /\ sections' = st.sections
           /\ current' = st.current
    /\ ri' = ri + 1
    /\ lastRow' = kind
    /\ UNCHANGED rows
    /\ UNCHANGED popupVars
    /\ UNCHANGED histVars
    /\ UNCHANGED csvVars
    /\ UNCHANGED mdVars
    /\ UNCHANGED loadVars

\* if (!a) continue
SkipRow ==
    /\ ri < Len(rows)
    /\ RowKind(rows[ri + 1], current) = "skip"
    /\ Advance("skip")

\* if (isIntegerCell(a)) { current = {...}; sections.push(current); continue }
SectionRow ==
    /\ ri < Len(rows)
    /\ RowKind(rows[ri + 1], current) = "section"
    /\ Advance("section")

\* if (!current) continue
OrphanRow ==
    /\ ri < Len(rows)
    /\ RowKind(rows[ri + 1], current) = "orphan"
    /\ Advance("orphan")

\* if (!Number.isFinite(x) || !Number.isFinite(y)) continue
DroppedRow ==
    /\ ri < Len(rows)
    /\ RowKind(rows[ri + 1], current) = "dropped"
    /\ Advance("dropped")

\* current.items.push({...})
ItemRow ==
    /\ ri < Len(rows)
    /\ RowKind(rows[ri + 1], current) = "item"
    /\ Advance("item")

RowSeqs == UNION {[1..n -> RowPool] : n \in 0..MaxRows}

InitBuild ==
    /\ text = <<>>
    /\ ci = 0
    /\ csvRows = <<>>
    /\ row = <<>>
    /\ field = <<>>
    /\ inQuotes = FALSE
    /\ pc = "build"
    /\ app = [error |-> "", sectionEls |-> 0]
    /\ MdUnused
    /\ Fetched
    /\ rows \in RowSeqs
    /\ ri = 0
    /\ sections = <<>>
    /\ current = 0
    /\ lastRow = "none"
    /\ PopupInit

NextBuild ==
    \/ SkipRow
    \/ SectionRow
    \/ OrphanRow
    \/ DroppedRow
    \/ ItemRow

SpecBuild == InitBuild /\ [][NextBuild]_vars

(***************************************************************************)
(* Specification of main: parseCsv, one character per step, then           *)
(* rowsToSections and the render                                           *)
(***************************************************************************)
\* The parser's locals, as the record CsvStep works on.
CsvLocals ==
    [rows |-> csvRows, row |-> row, field |-> field, inQuotes |-> inQuotes, i |-> ci]

\* The loop body's effect on the next character.
CsvAdvance ==
    /\ LET st == CsvStep(text, CsvLocals)
       IN  /\ csvRows' = st.rows
           /\ row' = st.row
           /\ field' = st.field
           /\ inQuotes' = st.inQuotes
           /\ ci' = st.i
    /\ UNCHANGED <<text, pc, app>>
    /\ UNCHANGED mdVars
    /\ UNCHANGED loadVars
    /\ UNCHANGED buildVars
    /\ UNCHANGED popupVars
    /\ UNCHANGED histVars

Scanning == pc = "scan" /\ ci < Len(text)

\* if (c === '"' && next === '"') { field += '"'; i++ }
EscapedQuote ==
    /\ Scanning
    /\ CsvBranch(text, CsvLocals) = "escapedQuote"
    /\ CsvAdvance

\* else if (c === '"') inQuotes = false
CloseQuote ==
    /\ Scanning
    /\ CsvBranch(text, CsvLocals) = "closeQuote"
    /\ CsvAdvance

\* else field += c   (inside quotes)
QuotedChar ==
    /\ Scanning
    /\ CsvBranch(text, CsvLocals) = "quotedChar"
    /\ CsvAdvance

\* if (c === '"') inQuotes = true
OpenQuote ==
    /\ Scanning
    /\ CsvBranch(text, CsvLocals) = "openQuote"
    /\ CsvAdvance

\* else if (c === ",") { row.push(field); field = "" }
Comma ==
    /\ Scanning
    /\ CsvBranch(text, CsvLocals) = "comma"
    /\ CsvAdvance

\* else if (c === "\n") { row.push(field); rows.push(row); row = []; field = "" }
LineFeed ==
    /\ Scanning
    /\ CsvBranch(text, CsvLocals) = "lineFeed"
    /\ CsvAdvance

\* else if (c === "\r") { /* ignore */ }
CarriageReturn ==
    /\ Scanning
    /\ CsvBranch(text, CsvLocals) = "carriageReturn"
    /\ CsvAdvance

\* else field += c   (outside quotes)
PlainChar ==
    /\ Scanning
    /\ CsvBranch(text, CsvLocals) = "char"
    /\ CsvAdvance

\* The loop has ended: the last field is pushed and the cells are trimmed.
LastField ==
    /\ pc = "scan"
    /\ ci >= Len(text)
    /\ csvRows' = CsvFinish(CsvLocals)
    /\ pc' = "parsed"
    /\ UNCHANGED <<text, ci, row, field, inQuotes, app>>
    /\ UNCHANGED mdVars
    /\ UNCHANGED loadVars
    /\ UNCHANGED buildVars
    /\ UNCHANGED popupVars
    /\ UNCHANGED histVars

\* const sections = rowsToSections(rows); then the empty state or the sections
MainRender ==
    /\ pc = "parsed"
    /\ rows' = csvRows
    /\ ri' = Len(csvRows)
    /\ sections' = rowsToSections(csvRows)
    /\ current' = RowsFold([sections |-> <<>>, current |-> 0], csvRows, 1).current
    /\ lastRow' = "done"
    /\ app' = Render(rowsToSections(csvRows))
    /\ pc' = "rendered"
    /\ UNCHANGED <<text, ci, csvRows, row, field, inQuotes>>
    /\ UNCHANGED mdVars
    /\ UNCHANGED loadVars
    /\ UNCHANGED popupVars
    /\ UNCHANGED histVars

TextsUpTo(n) == UNION {[1..m -> CsvChars] : m \in 0..n}

\* main is about to parse a text of T.
InitCsvOn(T) ==
    /\ text \in T
    /\ ci = 0
    /\ csvRows = <<>>
    /\ row = <<>>
    /\ field = <<>>
    /\ inQuotes = FALSE
    /\ pc = "scan"
    /\ app = [error |-> "", sectionEls |-> 0]
    /\ MdUnused
    /\ Fetched
    /\ rows = <<>>
    /\ ri = 0
    /\ sections = <<>>
    /\ current = 0
    /\ lastRow = "none"
    /\ PopupInit

InitCsv == InitCsvOn(TextsUpTo(MaxText))

InitCsvFair == InitCsvOn(TextsUpTo(MaxTextFair))

NextCsv ==
    \/ EscapedQuote
    \/ CloseQuote
    \/ QuotedChar
    \/ OpenQuote
    \/ Comma
    \/ LineFeed
    \/ CarriageReturn
    \/ PlainChar
    \/ LastField
    \/ MainRender

SpecCsv == InitCsv /\ [][NextCsv]_vars

\* main is one script run: it proceeds until it returns.
SpecCsvFair == InitCsvFair /\ [][NextCsv]_vars /\ WF_vars(NextCsv)

(***************************************************************************)
(* Specification of the script's load (src/app.js): the top-level          *)
(* statements, then main with its fetch, parseCsv and the render           *)
(***************************************************************************)
\* null, as u.searchParams.get("csv") returns it for an absent parameter.
Null == <<"null">>

HexDigits == Digits \cup {"A", "B", "C", "D", "E", "F", "a", "b", "c", "d", "e", "f"}

\* /%[0-9A-Fa-f]{2}/.test(csv)
looksEncoded(s) ==
    \E k \in 1..(Len(s) - 2) :
        s[k] = "%" /\ s[k + 1] \in HexDigits /\ s[k + 2] \in HexDigits

\* encodeURIComponent(csv), for the reserved characters the inputs use.
RECURSIVE encodeURIComponent(_)
encodeURIComponent(s) ==
    IF s = <<>> THEN <<>>
    ELSE (CASE Head(s) = ":" -> <<"%", "3", "A">>
            [] Head(s) = "/" -> <<"%", "2", "F">>
            [] Head(s) = "%" -> <<"%", "2", "5">>
            [] OTHER -> <<Head(s)>>) \o encodeURIComponent(Tail(s))

\* getCsvUrlFromQuery() of src/app.js, on the value of the csv parameter.
getCsvUrlFromQuery(csv) ==
    IF csv = Null \/ csv = <<>> THEN Null
    ELSE IF looksEncoded(csv) THEN csv
    ELSE encodeURIComponent(csv)

\* Values of the csv parameter: absent, empty, plain, a URL, with an escape.
QueryValues ==
    {Null, <<>>, <<"a">>, <<"a", ":", "/">>, <<"a", "%", "4", "1">>, <<"%", "a">>}

\* What the page may have defined under the names u and csv when the script
\* runs: nothing (u is local to getCsvUrlFromQuery), an object that is no URL
\* (such as an element with id "u"), or a URL, with or without a global csv.
Globals ==
    {[u |-> "undeclared", csv |-> Undefined],
     [u |-> "element", csv |-> Undefined],
     [u |-> "URL", csv |-> Undefined]}
    \cup {[u |-> "URL", csv |-> v] : v \in QueryValues \ {Null}}

MaxTextLoad == 3

\* What fetch gives: a rejection, a response that is not ok, or a text.
Responses ==
    {[kind |-> "rejected", text |-> <<>>], [kind |-> "notOk", text |-> <<>>]}
    \cup {[kind |-> "ok", text |-> tx] : tx \in TextsUpTo(MaxTextLoad)}

\* The frame of the steps of the load.
LoadFrame ==
    /\ UNCHANGED <<globals, response>>
    /\ UNCHANGED <<ci, csvRows, row, field, inQuotes>>
    /\ UNCHANGED mdVars
    /\ UNCHANGED buildVars
    /\ UNCHANGED popupVars
    /\ UNCHANGED histVars

\* u.searchParams.set("csv", csv) throws: u or csv is not declared
\* (ReferenceError) or u has no searchParams (TypeError).  The script's
\* evaluation ends there; the call of main() below is never reached.
TopLevelThrows ==
    /\ pc = "load"
    /\ globals.u # "URL" \/ globals.csv = Undefined
    /\ pc' = "aborted"
    /\ UNCHANGED <<query, csvUrl, text, app>>
    /\ LoadFrame

\* u.searchParams.set("csv", csv); window.history.replaceState({}, "", u.toString());
\* the address bar now has the global csv as its parameter.  Then main() is called.
TopLevelNormalise ==
    /\ pc = "load"
    /\ globals.u = "URL"
    /\ globals.csv # Undefined
    /\ query' = globals.csv
    /\ pc' = "main"
    /\ UNCHANGED <<csvUrl, text, app>>
    /\ LoadFrame

\* main: if (!csvUrl) { app.innerHTML = "Missing ?csv= parameter"; return; }
MainMissingCsv ==
    /\ pc = "main"
    /\ getCsvUrlFromQuery(query) = Null
    /\ csvUrl' = Null
    /\ app' = [error |-> "Missing csv parameter", sectionEls |-> 0]
    /\ pc' = "returned"
    /\ UNCHANGED <<query, text>>
    /\ LoadFrame

\* main: fetch rejects, or !res.ok throws: catch (e) { app.innerHTML = "Failed
\* to fetch CSV"; return; }
MainFetchFails ==
    /\ pc = "main"
    /\ getCsvUrlFromQuery(query) # Null
    /\ response.kind \in {"rejected", "notOk"}
    /\ csvUrl' = getCsvUrlFromQuery(query)
    /\ app' = [error |-> "Failed to fetch CSV", sectionEls |-> 0]
    /\ pc' = "returned"
    /\ UNCHANGED <<query, text>>
    /\ LoadFrame

\* main: text = await res.text(); parseCsv(text) follows.
MainFetchOk ==
    /\ pc = "main"
    /\ getCsvUrlFromQuery(query) # Null
    /\ response.kind = "ok"
    /\ csvUrl' = getCsvUrlFromQuery(query)
    /\ text' = response.text
    /\ pc' = "scan"
    /\ UNCHANGED <<query, app>>
    /\ LoadFrame

\* The page is opened: the script is about to run.
InitLoad ==
    /\ globals \in Globals
    /\ query \in QueryValues
    /\ csvUrl = Undefined
    /\ response \in Responses
    /\ text = <<>>
    /\ ci = 0
    /\ csvRows = <<>>
    /\ row = <<>>
    /\ field = <<>>
    /\ inQuotes = FALSE
    /\ pc = "load"
    /\ app = [error |-> "", sectionEls |-> 0]
    /\ MdUnused
    /\ rows = <<>>
    /\ ri = 0
    /\ sections = <<>>
    /\ current = 0
    /\ lastRow = "none"
    /\ PopupInit

NextLoad ==
    \/ TopLevelThrows
    \/ TopLevelNormalise
    \/ MainMissingCsv
    \/ MainFetchFails
    \/ MainFetchOk
    \/ NextCsv

SpecLoad == InitLoad /\ [][NextLoad]_vars

(***************************************************************************)
(* Properties of the popup controller                                      *)
(***************************************************************************)
\* The last event was op on section s.
Last(op, s) == lastEv.op = op /\ lastEv.sec = s

\* The popup of s is visible and pinned with the content of the marker of the last event.
PinnedOnLast(s) ==
    /\ ~hidden[s]
    /\ pinned[s]
    /\ content[s] = Rendered[s][lastEv.mk]

\* C1: from Hidden, a click on a text marker M makes the popup visible and
\* pinned with M's content, and a second click on M with no event in between
\* makes it hidden and unpinned.
C1_ClickTwiceToggles ==
    \A s \in SecIds :
        /\ (Last("click", s) /\ lastEv.pre = "Hidden") => PinnedOnLast(s)
        /\ (Last("click", s) /\ clicks = 2) => (hidden[s] /\ ~pinned[s])

C1_Witness ==
    \E s \in SecIds : Last("click", s) /\ clicks = 2 /\ hidden[s]

\* C2: after the pointer leaves a marker with the popup visible and unpinned,
\* the popup is eventually hidden unless the pointer re-enters a marker or the
\* popup or a click occurs; and once the pointer has entered the popup or a
\* text marker, no hide timer of that section is left pending to hide it.
C2_HoverDismissal ==
    /\ \A s \in SecIds :
         (Last("leave", s) /\ ~hidden[s] /\ ~pinned[s])
           ~> (\/ hidden[s]
               \/ Last("enter", s) \/ Last("popupEnter", s) \/ Last("click", s))
    /\ [](\A s \in SecIds :
            (Last("enter", s) \/ Last("popupEnter", s)) => PendingOf(s) = {})

C2_Witness ==
    \E s \in SecIds : Last("timer", s) /\ lastEv.pre = "Hover" /\ hidden[s]

\* C3 as stated: no sequence of pointer enter/leave events and hide-timer
\* firings takes a popup that was pinned to Hidden.
C3_PinnedSurvivesHoverEvents ==
    \A s \in SecIds : sincePin[s] # "none" => ~hidden[s]

\* C3 as amended: no sequence of pointer-leave events, popup pointer-enter
\* events and hide-timer firings unpins or hides a pinned popup (a pointer
\* entering a text marker resets the pin).
C3_PinnedSurvivesLeaveAndTimer ==
    \A s \in SecIds : sincePin[s] = "noenter" => (~hidden[s] /\ pinned[s])

C3_Witness ==
    \E s \in SecIds :
        Last("timer", s) /\ lastEv.pre = "Pinned" /\ sincePin[s] = "noenter" /\ ~hidden[s]

\* C4: the close action and a click in the stage outside the popup and every
\* marker leave the popup hidden and unpinned; a click inside the popup or on
\* a navigable marker changes neither visibility nor pinned.
C4_DismissAndInertClicks ==
    \A s \in SecIds :
        /\ (Last("close", s) \/ Last("stageClick", s)) => (hidden[s] /\ ~pinned[s])
        /\ (Last("popupClick", s) \/ Last("navClick", s)) => PopupClass(s) = lastEv.pre

C4_Witness ==
    \E s \in SecIds : Last("stageClick", s) /\ lastEv.pre = "Pinned" /\ hidden[s]

\* C5: after the pointer enters a text marker M the popup is visible and
\* unpinned with M's rendered text, the anchor is M's (x, y) and no hide timer
\* of the section is pending.
C5_PointerEnterShows ==
    \A s \in SecIds :
        Last("enter", s) =>
            /\ ~hidden[s]
            /\ ~pinned[s]
            /\ content[s] = Rendered[s][lastEv.mk]
            /\ lastPopupPos[s] = <<Item(s, lastEv.mk).x, Item(s, lastEv.mk).y>>
            /\ PendingOf(s) = {}

C5_Witness ==
    \E s \in SecIds :
        Last("enter", s) /\ lastEv.pre = "Pinned" /\ ~lastEv.same

\* C6: a click on a text marker M while the popup is hidden or shows the
\* content of a different marker leaves the popup visible and pinned with M's
\* content, whatever the coordinates of the two markers.
C6_ClickOtherMarkerPins ==
    \A s \in SecIds :
        (Last("click", s) /\ (lastEv.pre \in {"Hidden", "HiddenPinned"} \/ ~lastEv.same))
            => PinnedOnLast(s)

\* C7: a click on M while the popup is visible and unpinned showing M pins it
\* and keeps it visible with the same content, and a hide timer that was
\* pending at that click does not hide the popup when it fires.
C7_ClickPinsHoveredPopup ==
    \A s \in SecIds :
        /\ (Last("click", s) /\ lastEv.pre = "Hover" /\ lastEv.same) => PinnedOnLast(s)
        /\ (Last("timer", s) /\ lastEv.mark /\ lastEv.pre \in {"Hover", "Pinned"})
              => ~hidden[s]

C7_Witness ==
    \E s \in SecIds : Last("timer", s) /\ lastEv.mark /\ ~hidden[s] /\ pinned[s]

\* C8: a resize changes neither visibility, pinned, the anchor, the content
\* nor the pending timers: a visible popup is placed again against its anchor
\* and a hidden popup keeps its place and stays hidden.
C8_ResizeOnlyRepositions ==
    [][lastEv'.op = "resize" =>
        /\ UNCHANGED <<hidden, pinned, lastPopupPos, content, timers, hideTimer>>
        /\ \A s \in SecIds :
             /\ (~hidden[s] /\ img[s] = "loaded" /\ lastPopupPos[s] # <<>>)
                  => popupPos'[s] =
                       positionPopupAt(lastPopupPos[s][1], lastPopupPos[s][2], stage')
             /\ hidden[s] => popupPos'[s] = popupPos[s]]_vars

C8_Witness ==
    /\ lastEv.op = "resize"
    /\ \E s \in SecIds :
         /\ ~hidden[s]
         /\ pinned[s]
         /\ popupPos[s] = positionPopupAt(lastPopupPos[s][1], lastPopupPos[s][2], stage)
         /\ stage.w = 200

\* The events of one section.
SectionOps == {"load", "error", "enter", "leave", "popupEnter", "popupLeave", "timer",
               "click", "close", "popupClick", "navClick", "stageClick"}

\* The popup state of section s.
PopupStateOf(s) ==
    <<hidden[s], pinned[s], content[s], lastPopupPos[s], popupPos[s], hideTimer[s]>>

\* C9: an event of section a leaves the popup state of every other section b
\* (visible, pinned, content, anchor, pending timer) unchanged.
C9_SectionsIndependent ==
    [][\A a \in SecIds : \A b \in SecIds \ {a} :
          (lastEv'.sec = a /\ lastEv'.op \in SectionOps) =>
              /\ PopupStateOf(b)' = PopupStateOf(b)
              /\ PendingOf(b)' = PendingOf(b)]_vars

C9_Witness ==
    /\ Last("enter", 1)
    /\ ~hidden[1]
    /\ ~hidden[2]
    /\ pinned[2]
    /\ PendingOf(2) # {}

(***************************************************************************)
(* Properties of rowsToSections                                            *)
(***************************************************************************)
\* The trimmed first cell of r is made of ASCII digits only.
DigitsOnlyFirst(r) ==
    /\ Len(r) >= 1
    /\ Trim(r[1]) # <<>>
    /\ \A k \in 1..Len(Trim(r[1])) : Trim(r[1])[k] \in Digits

\* The rows among the first n whose trimmed first cell is digits only.
SectionRowsUpTo(n) == {k \in 1..n : DigitsOnlyFirst(rows[k])}

\* C10: the number of sections built equals the number of rows whose trimmed
\* first cell is digits only, and each such row opens one new section and makes
\* it current, whatever rows precede it.
C10_OneSectionPerIntegerRow ==
    /\ Len(sections) = Cardinality(SectionRowsUpTo(ri))
    /\ (ri > 0 /\ DigitsOnlyFirst(rows[ri])) =>
          /\ lastRow = "section"
          /\ current = Len(sections)
          /\ sections[current].id = parseInt(Trim(rows[ri][1]))
          /\ sections[current].items = <<>>
    /\ ri = Len(rows) => Len(rowsToSections(rows)) = Cardinality(SectionRowsUpTo(Len(rows)))

C10_Witness ==
    /\ ri = Len(rows)
    /\ ri = 3
    /\ lastRow = "section"
    /\ Len(sections) = 2
    /\ Len(sections[1].items) = 1

\* The row is an item row: its trimmed first cell is neither empty nor digits only.
ItemShaped(r) ==
    /\ Len(r) >= 1
    /\ Trim(r[1]) # <<>>
    /\ ~DigitsOnlyFirst(r)

\* The cell, trimmed and without one leading sign.
Unsigned(c) ==
    IF Trim(c) # <<>> /\ Head(Trim(c)) \in {"-", "+"} THEN Tail(Trim(c)) ELSE Trim(c)

\* Cell i of r is present and is, as a whole, a signed run of digits.
NumericCell(r, i) ==
    /\ Len(r) >= i
    /\ Unsigned(r[i]) # <<>>
    /\ \A k \in 1..Len(Unsigned(r[i])) : Unsigned(r[i])[k] \in Digits

\* Cell i of r is present and begins, after trimming, with a signed digit.
NumericPrefixCell(r, i) ==
    /\ Len(r) >= i
    /\ Unsigned(r[i]) # <<>>
    /\ Head(Unsigned(r[i])) \in Digits

\* The loop body on an item row r after a section row: the row is appended to
\* the current section as its last item when kept, and changes nothing else.
ItemRowEffect(r, kept) ==
    IF kept
    THEN /\ lastRow' = "item"
         /\ current' = current
         /\ Len(sections') = Len(sections)
         /\ \A k \in 1..Len(sections) : k # current => sections'[k] = sections[k]
         /\ Len(sections'[current].items) = Len(sections[current].items) + 1
         /\ SubSeq(sections'[current].items, 1, Len(sections[current].items))
               = sections[current].items
         /\ sections'[current].items[Len(sections'[current].items)].name = Trim(r[1])
    ELSE /\ lastRow' = "dropped"
         /\ current' = current
         /\ sections' = sections

\* C11 as stated: an item row after a section row is appended to the current
\* section if and only if its x cell and its y cell are numeric as a whole.
C11_ItemKeptIffNumeric ==
    [][(ri' = ri + 1 /\ current # 0 /\ ItemShaped(rows[ri + 1])) =>
          ItemRowEffect(rows[ri + 1],
                        NumericCell(rows[ri + 1], 3) /\ NumericCell(rows[ri + 1], 4))]_vars

\* C11 as amended: an item row after a section row is appended to the current
\* section if and only if its x cell and its y cell both begin, after trimming,
\* with a signed number (characters after the number are ignored); otherwise
\* the row is dropped and the sections, the current one included, stay as
\* they are.
C11_ItemKeptIffNumericPrefix ==
    [][(ri' = ri + 1 /\ current # 0 /\ ItemShaped(rows[ri + 1])) =>
          ItemRowEffect(rows[ri + 1],
                        NumericPrefixCell(rows[ri + 1], 3)
                          /\ NumericPrefixCell(rows[ri + 1], 4))]_vars

C11_Witness ==
    /\ ri = 3
    /\ ri = Len(rows)
    /\ lastRow = "item"
    /\ Cell(rows[2], 3) = <<"x">>
    /\ Cell(rows[3], 3) = <<"5", "x">>
    /\ Len(sections) = 1
    /\ Len(sections[1].items) = 1
    /\ sections[1].items[1].x = 5
    /\ sections[1].items[1].y = 0 - 7

\* The number of items in all the sections.
RECURSIVE TotalItems(_)
TotalItems(secs) ==
    IF secs = <<>> THEN 0 ELSE Len(Head(secs).items) + TotalItems(Tail(secs))

\* The index of the first section row among the first n rows, or n + 1.
FirstSectionRow(n) ==
    IF SectionRowsUpTo(n) = {} THEN n + 1
    ELSE CHOOSE k \in SectionRowsUpTo(n) : \A j \in SectionRowsUpTo(n) : k <= j

\* The item rows among the first n that come after the first section row.
ItemRowsAfterSection(n) ==
    {k \in 1..n : k > FirstSectionRow(n) /\ ItemShaped(rows[k])}

\* The names of the items of all the sections.
ItemNames(secs) ==
    UNION {{secs[k].items[j].name : j \in 1..Len(secs[k].items)} : k \in 1..Len(secs)}

\* C12: item rows before the first section row never appear in any section's
\* item list (every item comes from an item row after the first section row),
\* and an input without a section row yields zero sections and zero items.
C12_OrphanRowsDiscarded ==
    /\ lastRow = "orphan" => (sections = <<>> /\ current = 0)
    /\ SectionRowsUpTo(ri) = {} => (sections = <<>> /\ TotalItems(sections) = 0)
    /\ ItemNames(sections) \subseteq {Trim(rows[k][1]) : k \in ItemRowsAfterSection(ri)}
    /\ TotalItems(sections) <= Cardinality(ItemRowsAfterSection(ri))
    /\ (ri = Len(rows) /\ SectionRowsUpTo(Len(rows)) = {}) => rowsToSections(rows) = <<>>

C12_Witness ==
    /\ ri = 3
    /\ ri = Len(rows)
    /\ rows[1][1] = <<"A">>
    /\ NumericCell(rows[1], 3)
    /\ NumericCell(rows[1], 4)
    /\ lastRow = "item"
    /\ Len(sections) = 1
    /\ ItemNames(sections) = {<<"B">>}

\* The k-th smallest element of the finite set S of numbers.
Nth(S, k) == CHOOSE e \in S : Cardinality({i \in S : i < e}) = k - 1

\* The item rows among the first n that are kept, and the ordinal of the
\* section row nearest before row k.
KeptRows(n) ==
    {k \in ItemRowsAfterSection(n) :
        NumericPrefixCell(rows[k], 3) /\ NumericPrefixCell(rows[k], 4)}

SectionBefore(k) == Cardinality(SectionRowsUpTo(k))

KeptRowsOf(q, n) == {k \in KeptRows(n) : SectionBefore(k) = q}

\* C13: the sections are in the order of their section rows, the items of a
\* section are the kept item rows whose nearest preceding section row opened
\* it, in the order of their rows; and a row whose first cell is empty after
\* trimming changes neither the sections nor the current section.
C13_OrderFollowsRows ==
    /\ [](/\ Len(sections) = Cardinality(SectionRowsUpTo(ri))
          /\ \A q \in 1..Len(sections) :
               /\ sections[q].id = parseInt(Trim(rows[Nth(SectionRowsUpTo(ri), q)][1]))
               /\ Len(sections[q].items) = Cardinality(KeptRowsOf(q, ri))
               /\ \A j \in 1..Len(sections[q].items) :
                    sections[q].items[j].name = Trim(rows[Nth(KeptRowsOf(q, ri), j)][1]))
    /\ [][(ri' = ri + 1 /\ Trim(CellOr(rows[ri + 1], 1, <<>>)) = <<>>) =>
             (sections' = sections /\ current' = current)]_vars

C13_Witness ==
    /\ ri = 3
    /\ ri = Len(rows)
    /\ Len(sections) = 1
    /\ Len(sections[1].items) = 2
    /\ sections[1].items[1].name = <<"F">>
    /\ sections[1].items[2].name = <<"A">>

\* s begins with p, letter case ignored.
BeginsWithNoCase(s, p) ==
    /\ Len(s) >= Len(p)
    /\ \A k \in 1..Len(p) : ToLower(s[k]) = p[k]

\* s begins with http://, https:// or mailto:, letter case ignored.
BeginsWithScheme(s) ==
    \/ BeginsWithNoCase(s, <<"h", "t", "t", "p", ":", "/", "/">>)
    \/ BeginsWithNoCase(s, <<"h", "t", "t", "p", "s", ":", "/", "/">>)
    \/ BeginsWithNoCase(s, <<"m", "a", "i", "l", "t", "o", ":">>)

\* All the items built so far.
BuiltItems ==
    UNION {{sections[k].items[j] : j \in 1..Len(sections[k].items)} : k \in 1..Len(sections)}

RECURSIVE QuotesDoubled(_)
QuotesDoubled(b) ==
    IF b = <<>> THEN TRUE
    ELSE IF Head(b) = "\""
    THEN Len(b) >= 2 /\ b[2] = "\"" /\ QuotesDoubled(Tail(Tail(b)))
    ELSE QuotesDoubled(Tail(b))

\* b with each doubled quote replaced by one quote.
RECURSIVE Undoubled(_)
Undoubled(b) ==
    IF b = <<>> THEN <<>>
    ELSE IF Head(b) = "\"" THEN <<"\"">> \o Undoubled(Tail(Tail(b)))
    ELSE <<Head(b)>> \o Undoubled(Tail(b))

\* t without its first and last character.
Inner(t) == SubSeq(t, 2, Len(t) - 1)

\* t is one well-formed quoted field with a non-empty content.
QuotedField(t) ==
    /\ Len(t) >= 3
    /\ t[1] = "\""
    /\ t[Len(t)] = "\""
    /\ QuotesDoubled(Inner(t))

\* C15: inside an open quoted field two quotes in a row add exactly one quote
\* character to the field and leave the field open; the text made of one
\* well-formed quoted field parses to the one cell that holds the content
\* with each doubled quote as a single quote.
C15_DoubledQuoteIsOneQuote ==
    /\ [][(Scanning /\ inQuotes /\ CharAt(text, ci + 1) = "\"" /\ CharAt(text, ci + 2) = "\"")
            => /\ field' = Append(field, "\"")
               /\ inQuotes'
               /\ ci' = ci + 2
               /\ row' = row
               /\ csvRows' = csvRows]_vars
    /\ []((pc = "parsed" /\ QuotedField(text))
            => csvRows = <<<<Trim(Undoubled(Inner(text)))>>>>)

C15_Witness ==
    /\ pc = "parsed"
    /\ text = <<"\"", "a", "\"", "\"", "\"">>
    /\ csvRows = <<<<<<"a", "\"">>>>>>

\* Position k of t lies inside a quoted field: an odd number of quotes precede it.
InsideQuotes(t, k) == Cardinality({j \in 1..(k - 1) : t[j] = "\""}) % 2 = 1

\* The positions of t that hold the character c outside, or inside, quotes.
UnquotedAt(t, c) == {k \in 1..Len(t) : t[k] = c /\ ~InsideQuotes(t, k)}

QuotedAt(t, c) == {k \in 1..Len(t) : t[k] = c /\ InsideQuotes(t, k)}

\* The number of cells of the rows rs, and of occurrences of c in their cells.
RECURSIVE CellCount(_)
CellCount(rs) == IF rs = <<>> THEN 0 ELSE Len(Head(rs)) + CellCount(Tail(rs))

CountIn(cell, c) == Cardinality({k \in 1..Len(cell) : cell[k] = c})

RECURSIVE CountInRow(_, _)
CountInRow(r, c) ==
    IF r = <<>> THEN 0 ELSE CountIn(Head(r), c) + CountInRow(Tail(r), c)

RECURSIVE CountInRows(_, _)
CountInRows(rs, c) ==
    IF rs = <<>> THEN 0 ELSE CountInRow(Head(rs), c) + CountInRows(Tail(rs), c)

\* C16: while a quoted field is open a comma or a line feed is appended to the
\* field and ends neither the field nor the row; so the rows are as many as
\* the unquoted line feeds (plus the last, unterminated row), the cells as
\* many as the unquoted commas plus the rows, and every quoted comma is in a
\* cell.
C16_QuotedSeparatorsAreContent ==
    /\ [][(Scanning /\ inQuotes /\ CharAt(text, ci + 1) \in {",", "\n"})
            => /\ field' = Append(field, CharAt(text, ci + 1))
               /\ inQuotes'
               /\ row' = row
               /\ csvRows' = csvRows]_vars
    /\ [](pc = "parsed" =>
            /\ Len(csvRows) - Cardinality(UnquotedAt(text, "\n")) \in {0, 1}
            /\ CellCount(csvRows) = Cardinality(UnquotedAt(text, ",")) + Len(csvRows)
            /\ CountInRows(csvRows, ",") = Cardinality(QuotedAt(text, ",")))

C16_Witness ==
    /\ pc = "parsed"
    /\ text = <<"\"", ",", "\n", "1", "\"">>
    /\ csvRows = <<<<<<",", "\n", "1">>>>>>

\* C17 as stated: no parsed cell contains a carriage return, whether the
\* carriage return stood outside or inside a quoted field of the text.
C17_NoCarriageReturnInCells ==
    pc = "parsed" => CountInRows(csvRows, "\r") = 0

\* C17 as amended: a carriage return outside a quoted field is discarded and
\* changes nothing; inside an open quoted field it is appended to the field
\* like any other character, so the carriage returns of the parsed cells are
\* never more than the quoted ones of the text (the final trim removes those
\* at the ends of a cell).
C17_CarriageReturnKeptOnlyInQuotes ==
    /\ [][(Scanning /\ CharAt(text, ci + 1) = "\r")
            => IF inQuotes
               THEN /\ field' = Append(field, "\r")
                    /\ inQuotes'
                    /\ row' = row
                    /\ csvRows' = csvRows
               ELSE /\ field' = field
                    /\ ~inQuotes'
                    /\ row' = row
                    /\ csvRows' = csvRows]_vars
    /\ [](pc = "parsed" =>
            CountInRows(csvRows, "\r") <= Cardinality(QuotedAt(text, "\r")))

C17_Witness ==
    /\ pc = "parsed"
    /\ text = <<"\r", "\"", "a", "\r", "a">>
    /\ csvRows = <<<<<<"a", "\r", "a">>>>>>

\* The text ends inside an open quote.
EndsInsideQuotes(t) == InsideQuotes(t, Len(t) + 1)

\* The last unquoted line feed of t, or 0.
LastLineFeed(t) ==
    IF UnquotedAt(t, "\n") = {} THEN 0
    ELSE CHOOSE k \in UnquotedAt(t, "\n") : \A j \in UnquotedAt(t, "\n") : j <= k

\* Position k of t is a field separator, or adds a character to a field.
StartsContent(t, k) ==
    IF InsideQuotes(t, k)
    THEN t[k] # "\"" \/ CharAt(t, k + 1) = "\""
    ELSE t[k] \notin {"\"", "\n", "\r"}

\* The last line of t has started row content.
LastLineStarted(t) ==
    \E k \in (LastLineFeed(t) + 1)..Len(t) : StartsContent(t, k)

\* C18: for a text that does not end inside an open quote and whose last line
\* has started row content, the rows parsed from the text are the rows parsed
\* from the text followed by one line feed.
C18_TrailingLineFeedOptional ==
    (pc = "parsed" /\ ~EndsInsideQuotes(text) /\ LastLineStarted(text))
        => csvRows = parseCsv(text \o <<"\n">>)

C18_Witness ==
    /\ pc = "parsed"
    /\ text = <<"1", "\n", "a", ",", "1">>
    /\ csvRows = <<<<<<"1">>>>, <<<<"a">>, <<"1">>>>>>
    /\ csvRows = parseCsv(text \o <<"\n">>)

\* C19: for every text (empty, garbage or with an unterminated quote), main's
\* parse and build run to the end; the result is a possibly empty sequence of
\* sections, and when it is empty the page shows "No sections found" and no
\* section element, otherwise one element per section and no error.
C19_ParseAndBuildTerminate ==
    /\ <>(pc = "rendered")
    /\ [](pc = "rendered" =>
            /\ sections = rowsToSections(parseCsv(text))
            /\ sections = <<>> => (app.error = "No sections found" /\ app.sectionEls = 0)
            /\ sections # <<>> => (app.error = "" /\ app.sectionEls = Len(sections)))

C19_Witness ==
    /\ pc = "rendered"
    /\ text = <<"a", ",", "\"", "1">>
    /\ csvRows = <<<<<<"a">>, <<"1">>>>>>
    /\ sections = <<>>
    /\ app = [error |-> "No sections found", sectionEls |-> 0]

(***************************************************************************)
(* Specification of the popup text rendering: show() writes                *)
(* mdToSafeHtml(it.linkOrText) into the popup                              *)
(***************************************************************************)
\* The popup texts the rendering is checked on: pre [label](target) post.
MdPres == {<<>>, <<"<", " ">>}

MdLabels == {<<"d">>, <<"a", "&", "b">>, <<"<", "i", ">">>}

MdTargets ==
    {<<"h", "t", "t", "p", ":", "/", "/", "x">>,
     <<"h", "t", "t", "p", "s", ":", "/", "/", "x", "?", "a", "&", "b">>,
     <<" ", "M", "A", "I", "L", "T", "O", ":", "e", " ">>,
     <<"m", "a", "i", "l", "t", "o", ":", "e", "'", "f">>,
     <<"x">>,
     <<"j", "a", "v", "a", "s", "c", "r", "i", "p", "t", ":", "x">>,
     <<"h", "t", "t", "p", ":", "/", "x", "&", "y">>,
     <<"f", "t", "p", ":", "/", "/", "x">>,
     <<"h", "t", "t", "p", ":", "/", "/", "\"", ">", "<", "b">>,
     <<"h", "t", "t", "p", ":", "/", "/", "x", "\n", "y">>}

MdPosts == {<<>>, <<"\n", "z">>}

MdInputs == [pre : MdPres, label : MdLabels, target : MdTargets, post : MdPosts]

\* it.linkOrText for the parts in
MdText(in) == in.pre \o <<"[">> \o in.label \o <<"]", "(">> \o in.target \o <<")">> \o in.post

\* show() on a text whose link target is navigable: the markup has an anchor.
ShowLink ==
    /\ mdHtml = <<"unset">>
    /\ isNavigableUrl(Trim(escapeHtml(mdInput.target)))
    /\ mdHtml' = mdToSafeHtml(MdText(mdInput))
    /\ UNCHANGED mdInput
    /\ UNCHANGED loadVars
    /\ UNCHANGED csvVars
    /\ UNCHANGED buildVars
    /\ UNCHANGED popupVars
    /\ UNCHANGED histVars

\* show() on a text whose link target is not navigable: the markup has no anchor.
ShowText ==
    /\ mdHtml = <<"unset">>
    /\ ~isNavigableUrl(Trim(escapeHtml(mdInput.target)))
    /\ mdHtml' = mdToSafeHtml(MdText(mdInput))
    /\ UNCHANGED mdInput
    /\ UNCHANGED loadVars
    /\ UNCHANGED csvVars
    /\ UNCHANGED buildVars
    /\ UNCHANGED popupVars
    /\ UNCHANGED histVars

InitMd ==
    /\ mdInput \in MdInputs
    /\ mdHtml = <<"unset">>
    /\ text = <<>>
    /\ ci = 0
    /\ csvRows = <<>>
    /\ row = <<>>
    /\ field = <<>>
    /\ inQuotes = FALSE
    /\ pc = "show"
    /\ app = [error |-> "", sectionEls |-> 0]
    /\ rows = <<>>
    /\ ri = 0
    /\ sections = <<>>
    /\ current = 0
    /\ lastRow = "none"
    /\ Fetched
    /\ PopupInit

NextMd ==
    \/ ShowLink
    \/ ShowText

SpecMd == InitMd /\ [][NextMd]_vars

(***************************************************************************)
(* Properties of the popup text rendering                                  *)
(***************************************************************************)
\* The first index k >= from at which p occurs in s, or 0.
RECURSIVE IndexOfSeq(_, _, _)
IndexOfSeq(s, p, from) ==
    IF from + Len(p) - 1 > Len(s) THEN 0
    ELSE IF SubSeq(s, from, from + Len(p) - 1) = p THEN from
    ELSE IndexOfSeq(s, p, from + 1)

\* What the browser's HTML parser reads out of escaped text or an attribute
\* value: each character reference stands for its character.
RECURSIVE HtmlDecode(_)
HtmlDecode(s) ==
    IF s = <<>> THEN <<>>
    ELSE IF StartsWith(s, <<"&", "a", "m", "p", ";">>)
    THEN <<"&">> \o HtmlDecode(SubSeq(s, 6, Len(s)))
    ELSE IF StartsWith(s, <<"&", "l", "t", ";">>)
    THEN <<"<">> \o HtmlDecode(SubSeq(s, 5, Len(s)))
    ELSE IF StartsWith(s, <<"&", "g", "t", ";">>)
    THEN <<">">> \o HtmlDecode(SubSeq(s, 5, Len(s)))
    ELSE IF StartsWith(s, <<"&", "q", "u", "o", "t", ";">>)
    THEN <<"\"">> \o HtmlDecode(SubSeq(s, 7, Len(s)))
    ELSE IF StartsWith(s, <<"&", "#", "0", "3", "9", ";">>)
    THEN <<"'">> \o HtmlDecode(SubSeq(s, 7, Len(s)))
    ELSE <<Head(s)>> \o HtmlDecode(Tail(s))

\* The first anchor of the markup h: the value of its href attribute and its
\* text as the browser reads them, and where it ends; <<>> without an anchor.
FirstAnchor(h) ==
    LET a == IndexOfSeq(h, <<"<", "a", " ", "h", "r", "e", "f", "=", "\"">>, 1)
        q == IndexOf(h, "\"", a + 9)
        g == IndexOf(h, ">", q)
        e == IndexOfSeq(h, <<"<", "/", "a", ">">>, g)
    IN  IF a = 0 \/ q = 0 \/ g = 0 \/ e = 0 THEN <<>>
        ELSE [start |-> a,
              href  |-> HtmlDecode(SubSeq(h, a + 9, q - 1)),
              label |-> HtmlDecode(SubSeq(h, g + 1, e - 1)),
              end   |-> e + 3]

\* The markup h with each <br> as a line feed.
RECURSIVE BreaksAsLineFeeds(_)
BreaksAsLineFeeds(h) ==
    IF h = <<>> THEN <<>>
    ELSE IF StartsWith(h, <<"<", "b", "r", ">">>)
    THEN <<"\n">> \o BreaksAsLineFeeds(SubSeq(h, 5, Len(h)))
    ELSE <<Head(h)>> \o BreaksAsLineFeeds(Tail(h))

\* The text the browser shows for the markup h without anchors.
ShownText(h) == HtmlDecode(BreaksAsLineFeeds(h))

\* C20: for the popup text pre [label](target) post, the markup holds a link
\* if and only if the target begins with http://, https:// or mailto:; the
\* link has the label as its text and the literal (trimmed) target as its
\* href; otherwise no link is produced and the text shows the label followed
\* by the target in parentheses.
C20_LinkTargetsLiteral ==
    mdHtml # <<"unset">> =>
        IF BeginsWithScheme(Trim(mdInput.target))
        THEN /\ FirstAnchor(mdHtml) # <<>>
             /\ FirstAnchor(mdHtml).label = mdInput.label
             /\ FirstAnchor(mdHtml).href = Trim(mdInput.target)
        ELSE /\ FirstAnchor(mdHtml) = <<>>
             /\ ShownText(mdHtml)
                  = mdInput.pre \o mdInput.label \o <<" ", "(">> \o Trim(mdInput.target)
                      \o <<")">> \o mdInput.post

\* The positions of the markup h at which p occurs.
OccurrencesOf(h, p) ==
    {k \in 1..Len(h) : k + Len(p) - 1 <= Len(h) /\ SubSeq(h, k, k + Len(p) - 1) = p}

\* C21: in the rendered markup every "<" opens a generated anchor, closes one
\* or is a generated line break; the line breaks are as many as the line
\* feeds of the text; every double quote belongs to a generated anchor, whose
\* href value is followed by exactly the generated attributes; so no
\* character of the text ends or extends the anchor's attributes.
C21_NoMarkupFromInput ==
    mdHtml # <<"unset">> =>
        /\ \A k \in 1..Len(mdHtml) :
             mdHtml[k] = "<" =>
                \/ k \in OccurrencesOf(mdHtml, AnchorOpen)
                \/ k \in OccurrencesOf(mdHtml, AnchorClose)
                \/ k \in OccurrencesOf(mdHtml, LineBreak)
        /\ Cardinality(OccurrencesOf(mdHtml, LineBreak))
             = Cardinality(OccurrencesOf(MdText(mdInput), <<"\n">>))
        /\ Cardinality(OccurrencesOf(mdHtml, AnchorOpen)) <= 1
        /\ Cardinality(OccurrencesOf(mdHtml, AnchorClose))
             = Cardinality(OccurrencesOf(mdHtml, AnchorOpen))
        /\ Cardinality(OccurrencesOf(mdHtml, <<"\"">>))
             = 6 * Cardinality(OccurrencesOf(mdHtml, AnchorOpen))
        /\ \A a \in OccurrencesOf(mdHtml, AnchorOpen) :
             IndexOf(mdHtml, "\"", a + Len(AnchorOpen)) \in OccurrencesOf(mdHtml, AnchorAttrs)

C21_Witness ==
    /\ mdHtml # <<"unset">>
    /\ mdInput.pre = <<"<", " ">>
    /\ mdInput.label = <<"<", "i", ">">>
    /\ mdInput.target = <<"h", "t", "t", "p", ":", "/", "/", "\"", ">", "<", "b">>
    /\ mdInput.post = <<"\n", "z">>
    /\ Cardinality(OccurrencesOf(mdHtml, AnchorOpen)) = 1
    /\ Cardinality(OccurrencesOf(mdHtml, LineBreak)) = 1

(***************************************************************************)
(* Properties of the popup controller (continued)                          *)
(***************************************************************************)
\* C22: a section has its markers exactly when its own image load has fired
\* and one warning exactly when its own image error has fired; a load or an
\* error of one section changes neither the image state, the markers nor the
\* warnings of another, whose load stays possible while it is pending and
\* whose text markers react to the pointer once it has fired.
C22_SectionsLoadIndependently ==
    /\ [](\A s \in SecIds :
            /\ svg[s] = (IF img[s] = "loaded" THEN Markers(s) ELSE {})
            /\ warn[s] = (IF img[s] = "error" THEN 1 ELSE 0)
            /\ img[s] = "loading" => ENABLED ImgLoad(s)
            /\ (img[s] = "loaded" /\ pointerAt = <<"out">>) =>
                  \A m \in TextMarkers(s) : ENABLED MarkerPointerEnter(s, m))
    /\ [][\A a \in SecIds : \A b \in SecIds \ {a} :
             (lastEv'.sec = a /\ lastEv'.op \in {"load", "error"}) =>
                 (img'[b] = img[b] /\ svg'[b] = svg[b] /\ warn'[b] = warn[b])]_vars

C22_Witness ==
    /\ img[1] = "error"
    /\ warn[1] = 1
    /\ svg[1] = {}
    /\ Last("enter", 2)
    /\ svg[2] = Markers(2)
    /\ warn[2] = 0
    /\ ~hidden[2]

\* C23 as stated: after the pointer leaves the popup while the popup is pinned,
\* no hide timer of that section is pending.
C23_NoTimerOnPinnedPopupLeave ==
    \A s \in SecIds :
        (Last("popupLeave", s) /\ lastEv.pre = "Pinned") => PendingOf(s) = {}

\* C23 as amended: the pointer leaving a pinned popup arms the hide timer as on
\* every leave (exactly one timer of the section is pending afterwards, the one
\* hideTimer names) and leaves the popup visible and pinned; that timer firing
\* while the popup is pinned neither hides nor unpins it.
C23_PinnedPopupLeaveArmsInertTimer ==
    \A s \in SecIds :
        /\ (Last("popupLeave", s) /\ lastEv.pre = "Pinned") =>
              /\ Cardinality(PendingOf(s)) = 1
              /\ \A t \in PendingOf(s) : t.id = hideTimer[s]
              /\ ~hidden[s] /\ pinned[s]
        /\ (Last("timer", s) /\ lastEv.pre = "Pinned") =>
              (~hidden[s] /\ pinned[s] /\ PendingOf(s) = {})

C23_Witness ==
    \E s \in SecIds :
        /\ Last("popupLeave", s) /\ lastEv.pre = "Pinned"
        /\ PendingOf(s) # {} /\ pinned[s] /\ ~hidden[s]

\* C24: each section has at most one pending hide timer, the one its hideTimer
\* names (the last one armed, so no superseded timer is left to fire); after a
\* leave exactly one is pending, also when one was pending before the leave;
\* and once it has fired none is pending until the next leave.
C24_OnePendingHideTimer ==
    \A s \in SecIds :
        /\ Cardinality(PendingOf(s)) <= 1
        /\ \A t \in PendingOf(s) : t.id = hideTimer[s]
        /\ (Last("leave", s) \/ Last("popupLeave", s)) => Cardinality(PendingOf(s)) = 1
        /\ Last("timer", s) => PendingOf(s) = {}

\* A leave of the second pointer armed the timer while the one armed by the
\* first pointer's leave was pending.
C24_Witness ==
    \E s \in SecIds :
        /\ Last("leave", s) /\ lastEv.mark
        /\ pointerAt = <<"out">> /\ penAt = <<"out">>
        /\ Cardinality(PendingOf(s)) = 1

(***************************************************************************)
(* Properties of the placement                                             *)
(***************************************************************************)
\* The sections whose popup has been placed.
Placed == {s \in SecIds : popupPos[s] # <<>>}

\* The marker of the last placement in stage pixels, by axis.
MarkerX(s) == (lastPopupPos[s][1] * stage.w) \div Natural.w
MarkerY(s) == (lastPopupPos[s][2] * stage.h) \div Natural.h

\* C25 as stated: after every placement the popup's box lies within the stage
\* bounds minus the padding on both axes.
C25_PopupWithinStage ==
    \A s \in Placed :
        /\ pad <= popupPos[s][1]
        /\ pad <= popupPos[s][2]
        /\ popupPos[s][1] + pRect.w <= stage.w - pad
        /\ popupPos[s][2] + pRect.h <= stage.h - pad

\* The placement on one axis: v the popup's coordinate, m the marker's, size
\* the popup's extent and room the stage's.  The coordinate is never below the
\* padding; the far edge keeps the padding whenever the popup with both
\* paddings fits, and else the popup starts at the padding; the popup is put
\* after the marker when that fits, and before it when it does not fit after
\* but fits before.
AxisPlaced(v, m, size, room) ==
    /\ pad <= v
    /\ (size + 2 * pad <= room) => (v + size <= room - pad)
    /\ (size + 2 * pad > room) => (v = pad)
    /\ (m >= 0 /\ m + pad + size <= room - pad) => (v = m + pad)
    /\ (m + pad + size > room - pad /\ m - size - pad >= pad /\ m <= room) =>
          (v = m - size - pad)

\* C25 as amended: after every placement the popup's left and top are at least
\* the padding; on an axis where the popup with both paddings fits into the
\* stage its far edge keeps the padding, and where it does not fit the popup
\* starts at the padding and overflows the far edge; the popup is below-right
\* of the marker unless that would overflow, and then flipped to left/above.
C25_PopupWithinStageIfItFits ==
    \A s \in Placed :
        /\ AxisPlaced(popupPos[s][1], MarkerX(s), pRect.w, stage.w)
        /\ AxisPlaced(popupPos[s][2], MarkerY(s), pRect.h, stage.h)

\* A popup flipped to the left of its marker on a stage it fits into, and one
\* kept at the padding on the axis where it is higher than the stage.
C25_Witness ==
    \E s \in Placed :
        /\ pRect.h + 2 * pad > stage.h
        /\ popupPos[s][2] = pad
        /\ pRect.w + 2 * pad <= stage.w
        /\ MarkerX(s) + pad + pRect.w > stage.w - pad
        /\ popupPos[s][1] = MarkerX(s) - pRect.w - pad

(***************************************************************************)
(* Properties of the popup controller when images load anew                *)
(***************************************************************************)
\* C26 as stated: after a (re)load of a section's image its popup is hidden and
\* unpinned and no anchor of before the load is used any more; and after every
\* dismissal (close, outside click, toggle-off, timer hide) the popup is hidden
\* and unpinned.
C26_ReloadAndDismissalReset ==
    \A s \in SecIds :
        /\ (Last("load", s) \/ Last("reload", s)) =>
              /\ hidden[s] /\ ~pinned[s]
              /\ lastPopupPos[s] = <<>> /\ ResizeAnchor(s) = <<>>
        /\ (Last("close", s) \/ Last("stageClick", s)) => (hidden[s] /\ ~pinned[s])
        /\ (Last("click", s) /\ lastEv.pre = "Pinned" /\ lastEv.same) =>
              (hidden[s] /\ ~pinned[s])
        /\ (Last("timer", s) /\ lastEv.pre = "Hover") => (hidden[s] /\ ~pinned[s])

(***************************************************************************)
(* Properties of the popup controller (states and timers)                  *)
(***************************************************************************)
\* C27: in every reachable state a pinned popup is visible: each section's
\* popup is Hidden (hidden, unpinned), Shown-Hover (visible, unpinned) or
\* Shown-Pinned (visible, pinned), never hidden and pinned.
C27_PinnedImpliesVisible ==
    \A s \in SecIds :
        /\ pinned[s] => ~hidden[s]
        /\ PopupClass(s) \in {"Hidden", "Hover", "Pinned"}

\* The three states at once, after events of every kind: section 1 pinned with
\* a resize as the last event, section 2 shown by hover.
C27_Witness ==
    /\ PopupClass(1) = "Pinned"
    /\ PopupClass(2) = "Hover"
    /\ lastEv.op = "resize"
    /\ hideTimer[1] # 0
    /\ PendingOf(1) = {}

\* The step shows the popup of s: a pointer enters a text marker, or a text
\* marker is clicked while the popup is hidden or anchored elsewhere.
ShowStep(s) ==
    /\ lastEv'.sec = s
    /\ \/ lastEv'.op = "enter"
       \/ /\ lastEv'.op = "click"
          /\ hidden[s] \/ ~sameMarker(lastPopupPos[s], Item(s, lastEv'.mk))

\* The step is a firing of a hide timer of s.
TimerStep(s) == lastEv'.op = "timer" /\ lastEv'.sec = s /\ timers' # timers

\* C28: every step that shows the popup leaves no hide timer of the section
\* pending and resets hideTimer; hence a timer that fires is the one hideTimer
\* names, armed after the popup was last shown; and a timer that fires while
\* the popup is pinned changes nothing of the popup.
C28_ArmedTimerNeverHidesReshownPopup ==
    /\ [][\A s \in SecIds :
             ShowStep(s) => (PendingOf(s)' = {} /\ hideTimer'[s] = 0 /\ ~hidden'[s])]_vars
    /\ [][\A s \in SecIds :
             TimerStep(s) =>
                /\ hideTimer[s] # 0
                /\ PendingOf(s) = {[id |-> hideTimer[s], sec |-> s, mark |-> t.mark] :
                                     t \in PendingOf(s)}
                /\ pinned[s] => UNCHANGED <<hidden, pinned, content, popupPos>>]_vars

\* A popup shown by hover, left (timer armed) and then shown and pinned by a
\* click on a marker elsewhere: the timer is gone.
C28_Witness ==
    \E s \in SecIds :
        /\ Last("click", s) /\ lastEv.pre = "Hover" /\ ~lastEv.same
        /\ lastPopupPos[s] = <<Item(s, lastEv.mk).x, Item(s, lastEv.mk).y>>
        /\ pointerAt = <<"out">>
        /\ pinned[s] /\ ~hidden[s]
        /\ PendingOf(s) = {} /\ hideTimer[s] = 0

(***************************************************************************)
(* Properties of the row-to-section builder (identifiers and circles)      *)
(***************************************************************************)
\* C29 as stated: no two sections of the built sequence have the same id.
C29_SectionIdsUnique ==
    \A i \in 1..Len(sections) : \A j \in 1..Len(sections) :
        i # j => sections[i].id # sections[j].id

\* C30 as stated: every built item has a positive radius and a non-empty
\* color; an item row with a missing or empty radius cell gives 15 and one with
\* a missing or empty color cell gives "green".
C30_RadiusPositiveColorNonEmpty ==
    /\ \A it \in BuiltItems : it.radius > 0 /\ it.color # <<>>
    /\ (lastRow = "item" /\ Trim(CellOr(rows[ri], 6, <<>>)) = <<>>) =>
          sections[current].items[Len(sections[current].items)].radius = 15
    /\ (lastRow = "item" /\ Trim(CellOr(rows[ri], 5, <<>>)) = <<>>) =>
          sections[current].items[Len(sections[current].items)].color = Green

(***************************************************************************)
(* Properties of parseCsv (shape of the rows)                              *)
(***************************************************************************)
\* The position of the n-th line feed outside quotes of t; 0 before the first
\* line and Len(t) + 1 when t has fewer.
LineEnd(t, n) ==
    IF n = 0 THEN 0
    ELSE IF n > Cardinality(UnquotedAt(t, "\n")) THEN Len(t) + 1
    ELSE CHOOSE k \in UnquotedAt(t, "\n") :
            Cardinality({j \in UnquotedAt(t, "\n") : j <= k}) = n

\* The separators of the n-th line of t: its commas outside quotes.
SeparatorsOfLine(t, n) ==
    {k \in UnquotedAt(t, ",") : LineEnd(t, n - 1) < k /\ k < LineEnd(t, n)}

\* C31 as stated: all rows parseCsv returns have the same number of cells.
C31_RowsRectangular ==
    pc = "parsed" =>
        \A i \in 1..Len(csvRows) : \A j \in 1..Len(csvRows) :
            Len(csvRows[i]) = Len(csvRows[j])

\* C31 as amended: the n-th row parseCsv returns has one cell more than the
\* n-th line of the text has commas outside quotes; no row is filled up or cut,
\* so the rows have the same number of cells only when the lines have the same
\* number of separators.
C31_RowWidthFollowsLine ==
    pc = "parsed" =>
        /\ \A n \in 1..Len(csvRows) :
              Len(csvRows[n]) = Cardinality(SeparatorsOfLine(text, n)) + 1
        /\ (\A i \in 1..Len(csvRows) : \A j \in 1..Len(csvRows) :
                Len(csvRows[i]) = Len(csvRows[j]))
             <=> (\A i \in 1..Len(csvRows) : \A j \in 1..Len(csvRows) :
                    Cardinality(SeparatorsOfLine(text, i)) =
                    Cardinality(SeparatorsOfLine(text, j)))

\* A line with a separator followed by a line without: rows of two cells and
\* of one cell.
C31_Witness ==
    /\ pc = "parsed"
    /\ text = <<"a", ",", "1", "\n", "a">>
    /\ csvRows = <<<<<<"a">>, <<"1">>>>, <<<<"a">>>>>>

(***************************************************************************)
(* Properties of the script's load                                         *)
(***************************************************************************)
\* The script has run to its end.
LoadEnded == pc \in {"aborted", "returned", "rendered"}

\* C32 as stated: loading src/app.js never ends before main() has run, and a
\* page opened with a csv parameter ends with exactly one of the fetch-failure
\* message, the "No sections found" message, or one section element per built
\* section.
C32_TopLevelReachesMain ==
    /\ pc # "aborted"
    /\ (LoadEnded /\ query \notin {Null, <<>>}) =>
          \/ app = [error |-> "Failed to fetch CSV", sectionEls |-> 0]
          \/ app = [error |-> "No sections found", sectionEls |-> 0]
          \/ app.error = "" /\ app.sectionEls = Len(sections) /\ Len(sections) > 0

====
